---- MODULE Spec2Model ----
(***************************************************************************)
(* RAG Vector Store Writer: input validation, the retrying HTTP client,    *)
(* the Pinecone and Qdrant writers and the actor's main, as one state      *)
(* machine.                                                                *)
(*                                                                         *)
(* A Python str is a sequence of one-character strings.  An element of     *)
(* more than one character stands for a fixed fragment of a message's      *)
(* literal text (it is never matched against the characters of a key).     *)
(***************************************************************************)
EXTENDS Integers, Sequences, FiniteSets, TLC

\* ------------------------------------------------------------------ bounds
\* Largest number of items a dataset of the model holds.
MaxItems == 3
\* Largest batch_size the run inputs of the model ask for.
MaxBatch == 2

\* --------------------------------------------------------------- characters
Lower26 == <<"a","b","c","d","e","f","g","h","i","j","k","l","m","n","o","p","q","r","s","t","u","v","w","x","y","z">>
Upper26 == <<"A","B","C","D","E","F","G","H","I","J","K","L","M","N","O","P","Q","R","S","T","U","V","W","X","Y","Z">>
Digit10 == <<"0","1","2","3","4","5","6","7","8","9">>
Range(f) == {f[i] : i \in DOMAIN f}
Letters == Range(Lower26) \cup Range(Upper26)
DigitChars == Range(Digit10)
AlnumChars == Letters \cup DigitChars
\* str.strip() with no argument removes whitespace.
Whitespace == {" ", "\t", "\n", "\r", "\f"}

SetMin(S) == CHOOSE m \in S : \A k \in S : m <= k
SetMax(S) == CHOOSE m \in S : \A k \in S : m >= k

\* ------------------------------------------------------------ str methods
\* p occurs in s at position i.
StartsWithAt(s, i, p) ==
    /\ i + Len(p) - 1 <= Len(s)
    /\ \A j \in 1..Len(p) : s[i + j - 1] = p[j]

\* `p in s` for a non-empty p.
Contains(s, p) == \E i \in 1..Len(s) : StartsWithAt(s, i, p)

RECURSIVE ReplaceFrom(_, _, _, _)
ReplaceFrom(s, i, p, r) ==
    IF i > Len(s) THEN <<>>
    ELSE IF StartsWithAt(s, i, p) THEN r \o ReplaceFrom(s, i + Len(p), p, r)
    ELSE <<s[i]>> \o ReplaceFrom(s, i + 1, p, r)

\* s.replace(p, r) for a non-empty p: leftmost, non-overlapping occurrences.
StrReplace(s, p, r) == ReplaceFrom(s, 1, p, r)

\* s.strip()
Strip(s) ==
    LET keep == {i \in 1..Len(s) : s[i] \notin Whitespace}
    IN  IF keep = {} THEN <<>> ELSE SubSeq(s, SetMin(keep), SetMax(keep))

\* s.rstrip(c)
RStripChar(s, c) ==
    LET keep == {i \in 1..Len(s) : s[i] # c}
    IN  IF keep = {} THEN <<>> ELSE SubSeq(s, 1, SetMax(keep))

LowerChar(c) ==
    IF \E k \in 1..26 : Upper26[k] = c
    THEN Lower26[CHOOSE k \in 1..26 : Upper26[k] = c]
    ELSE c

\* s.lower()
ToLower(s) == [i \in 1..Len(s) |-> LowerChar(s[i])]

\* str(n) of an int.
RECURSIVE Digits(_)
Digits(n) ==
    IF n < 0 THEN <<"-">> \o Digits(0 - n)
    ELSE IF n < 10 THEN <<Digit10[n + 1]>>
    ELSE Digits(n \div 10) \o <<Digit10[(n % 10) + 1]>>

\* f"{n:,}" of a non-negative int: digits in groups of three.
RECURSIVE DigitsComma(_)
DigitsComma(n) ==
    IF n < 1000 THEN Digits(n)
    ELSE LET low == n % 1000
             pad == IF low < 10 THEN <<"0","0">> ELSE IF low < 100 THEN <<"0">> ELSE <<>>
         IN  DigitsComma(n \div 1000) \o <<",">> \o pad \o Digits(low)

\* ------------------------------------------------------------------ values
\* A JSON / Python value: t is its type, s the characters of a str, n the
\* number of an int, bool or float (a finite float carries its truncation),
\* l the elements of a list or the (key, value) pairs of a dict.
Missing == [t |-> "missing", s |-> <<>>, n |-> 0, l |-> <<>>]
Null == [t |-> "null", s |-> <<>>, n |-> 0, l |-> <<>>]
Str(s) == [t |-> "str", s |-> s, n |-> 0, l |-> <<>>]
IntV(n) == [t |-> "int", s |-> <<>>, n |-> n, l |-> <<>>]
BoolV(b) == [t |-> "bool", s |-> <<>>, n |-> IF b THEN 1 ELSE 0, l |-> <<>>]
FloatV(n) == [t |-> "float", s |-> <<>>, n |-> n, l |-> <<>>]
InfV == [t |-> "inf", s |-> <<>>, n |-> 0, l |-> <<>>]
NanV == [t |-> "nan", s |-> <<>>, n |-> 0, l |-> <<>>]
ListV(l) == [t |-> "list", s |-> <<>>, n |-> 0, l |-> l]
DictV(kv) == [t |-> "dict", s |-> <<>>, n |-> 0, l |-> kv]
KV(k, v) == [k |-> k, v |-> v]

\* bool(v)
Truthy(v) ==
    CASE v.t \in {"missing", "null"} -> FALSE
      [] v.t = "str" -> v.s # <<>>
      [] v.t \in {"int", "bool", "float"} -> v.n # 0
      [] v.t \in {"inf", "nan"} -> TRUE
      [] OTHER -> v.l # <<>>

\* d.get(key, default) of the actor input: an absent key is Missing.
Get(v, default) == IF v = Missing THEN default ELSE v

\* key in d, and d.get(key, default), of a dict value.
HasKey(d, key) == \E i \in 1..Len(d.l) : d.l[i].k = key
DictGet(d, key, default) ==
    IF HasKey(d, key)
    THEN d.l[CHOOSE i \in 1..Len(d.l) : d.l[i].k = key].v
    ELSE default

\* --------------------------------------------------- validation.py: limits
MAX_VECTORS_COUNT == 50000
MAX_BATCH_SIZE_PINECONE == 1000
MAX_BATCH_SIZE_QDRANT == 500
\* The {0,63} (and, for the namespace, {0,64}) of the patterns.
PATTERN_TAIL == 63
NAMESPACE_MAX == 64
DEFAULT_BATCH_SIZE == 100

PINECONE == <<"p","i","n","e","c","o","n","e">>
QDRANT == <<"q","d","r","a","n","t">>
VALID_PROVIDERS == {PINECONE, QDRANT}
VALID_DISTANCE_METRICS ==
    {<<"C","o","s","i","n","e">>, <<"D","o","t">>, <<"E","u","c","l","i","d">>}
CHUNK_ID == <<"c","h","u","n","k","_","i","d">>
EMBEDDING == <<"e","m","b","e","d","d","i","n","g">>

\* ------------------------------------------------- validation.py: patterns
\* A pattern ending in `$`, tried with re.match: `$` matches at the end of
\* the string and also just before a newline that ends the string.
DollarBodies(s) ==
    {s} \cup (IF Len(s) > 0 /\ s[Len(s)] = "\n"
              THEN {SubSeq(s, 1, Len(s) - 1)} ELSE {})

\* ^[first][rest]{0,tail}
FirstRest(s, first, rest, tail) ==
    /\ Len(s) >= 1
    /\ Len(s) <= tail + 1
    /\ s[1] \in first
    /\ \A i \in 2..Len(s) : s[i] \in rest

\* A changed copy of _INDEX_NAME_PATTERN, without the {0,63}.
IndexNamePatternNoLength(s) ==
    \E b \in DollarBodies(s) :
        FirstRest(b, AlnumChars, AlnumChars \cup {"_", "-"}, Len(s))

\* ^[a-zA-Z0-9][a-zA-Z0-9_-]{0,63}$
_INDEX_NAME_PATTERN(s) ==
    \E b \in DollarBodies(s) :
        FirstRest(b, AlnumChars, AlnumChars \cup {"_", "-"}, PATTERN_TAIL)

\* ^[a-zA-Z0-9][a-zA-Z0-9_~-]{0,63}$
_DATASET_ID_PATTERN(s) ==
    \E b \in DollarBodies(s) :
        FirstRest(b, AlnumChars, AlnumChars \cup {"_", "~", "-"}, PATTERN_TAIL)

\* ^[a-zA-Z_][a-zA-Z0-9_.]{0,63}$
_FIELD_NAME_PATTERN(s) ==
    \E b \in DollarBodies(s) :
        FirstRest(b, Letters \cup {"_"}, AlnumChars \cup {"_", "."}, PATTERN_TAIL)

\* ^[a-zA-Z0-9._-]{0,64}$
_NAMESPACE_PATTERN(s) ==
    \E b \in DollarBodies(s) :
        /\ Len(b) <= NAMESPACE_MAX
        /\ \A i \in 1..Len(b) : b[i] \in AlnumChars \cup {".", "_", "-"}

HTTPS == <<"h","t","t","p","s",":","/","/">>
CLOUD_QDRANT_IO == <<".","c","l","o","u","d",".","q","d","r","a","n","t",".","i","o">>

\* (:\d+)?
IsPortOrEmpty(s) ==
    \/ s = <<>>
    \/ /\ Len(s) >= 2
       /\ s[1] = ":"
       /\ \A i \in 2..Len(s) : s[i] \in DigitChars

\* https://[a-zA-Z0-9._-]+\.cloud\.qdrant\.io(:\d+)? over the whole of b: the
\* host run ends at some position e and the fixed suffix follows it.
QdrantUrlBody(b) ==
    /\ StartsWithAt(b, 1, HTTPS)
    /\ \E e \in (Len(HTTPS) + 1)..Len(b) :
         /\ \A i \in (Len(HTTPS) + 1)..e : b[i] \in AlnumChars \cup {".", "_", "-"}
         /\ StartsWithAt(b, e + 1, CLOUD_QDRANT_IO)
         /\ IsPortOrEmpty(SubSeq(b, e + 1 + Len(CLOUD_QDRANT_IO), Len(b)))

\* ^https://[a-zA-Z0-9._-]+\.cloud\.qdrant\.io(:\d+)?$
_QDRANT_URL_PATTERN(s) == \E b \in DollarBodies(s) : QdrantUrlBody(b)

\* [\x00-\x08\x0b\x0c\x0e-\x1f\x7f]; of the model's characters the form feed
\* (\x0c) alone is one of them: tab, newline and carriage return are not.
_CONTROL_CHARS == {"\f"}

\* sanitize_text: _CONTROL_CHARS.sub("", text)
sanitize_text(text) == SelectSeq(text, LAMBDA c : c \notin _CONTROL_CHARS)

\* ------------------------------------------------------ _sanitize_error
REDACTED == <<"[","R","E","D","A","C","T","E","D","]">>
\* api_key[:8]
KEY_PREFIX_LEN == 8
KeyPrefix(api_key) ==
    SubSeq(api_key, 1, IF Len(api_key) < KEY_PREFIX_LEN THEN Len(api_key) ELSE KEY_PREFIX_LEN)

\* The same function in validation.py, writers/pinecone.py, writers/qdrant.py.
_sanitize_error(message, api_key) ==
    LET m1 == IF api_key # <<>> /\ Contains(message, api_key)
              THEN StrReplace(message, api_key, REDACTED) ELSE message
    IN  IF /\ api_key # <<>>
           /\ Len(api_key) > KEY_PREFIX_LEN
           /\ Contains(m1, KeyPrefix(api_key))
        THEN StrReplace(m1, KeyPrefix(api_key), REDACTED)
        ELSE m1

\* ------------------------------------------------------ str() and int()
RECURSIVE JoinRepr(_, _)
RECURSIVE PyRepr(_)
\* repr(v)
PyRepr(v) ==
    CASE v.t = "str" -> <<"'">> \o v.s \o <<"'">>
      [] v.t = "int" -> Digits(v.n)
      [] v.t = "float" -> Digits(v.n) \o <<".", "5">>
      [] v.t = "bool" -> IF v.n = 1 THEN <<"T","r","u","e">> ELSE <<"F","a","l","s","e">>
      [] v.t = "inf" -> <<"i","n","f">>
      [] v.t = "nan" -> <<"n","a","n">>
      [] v.t = "list" -> <<"[">> \o JoinRepr(v.l, FALSE) \o <<"]">>
      [] v.t = "dict" -> <<"{">> \o JoinRepr(v.l, TRUE) \o <<"}">>
      [] OTHER -> <<"N","o","n","e">>
JoinRepr(l, pairs) ==
    IF l = <<>> THEN <<>>
    ELSE LET one == IF pairs
                    THEN <<"'">> \o Head(l).k \o <<"'", ":", " ">> \o PyRepr(Head(l).v)
                    ELSE PyRepr(Head(l))
         IN  IF Len(l) = 1 THEN one ELSE one \o <<",", " ">> \o JoinRepr(Tail(l), pairs)

\* str(v), as an f-string formats it.
PyStr(v) == IF v.t = "str" THEN v.s ELSE PyRepr(v)

RECURSIVE DigitsValue(_)
DigitsValue(ds) ==
    IF ds = <<>> THEN 0
    ELSE 10 * DigitsValue(SubSeq(ds, 1, Len(ds) - 1))
         + (CHOOSE d \in 0..9 : Digit10[d + 1] = ds[Len(ds)])

\* An int literal as int(str) takes it: an optional sign, then digits with
\* single underscores allowed between them.
IsIntLiteral(s) ==
    LET body == IF s # <<>> /\ s[1] \in {"+", "-"} THEN Tail(s) ELSE s
    IN  /\ body # <<>>
        /\ body[1] \in DigitChars
        /\ body[Len(body)] \in DigitChars
        /\ \A i \in 1..Len(body) : body[i] \in DigitChars \cup {"_"}
        /\ \A i \in 1..(Len(body) - 1) : ~(body[i] = "_" /\ body[i + 1] = "_")

IntLiteralValue(s) ==
    LET neg == s[1] = "-"
        body == IF s[1] \in {"+", "-"} THEN Tail(s) ELSE s
        mag == DigitsValue(SelectSeq(body, LAMBDA c : c # "_"))
    IN  IF neg THEN 0 - mag ELSE mag

\* int(v) for a v that is no int (a bool is an int): k is "ok" with the
\* number n, "caught" for the TypeError or ValueError that validate_input
\* catches, and the exception's name for one it does not catch.
PyInt(v) ==
    CASE v.t = "str" ->
           IF IsIntLiteral(Strip(v.s))
           THEN [k |-> "ok", n |-> IntLiteralValue(Strip(v.s))]
           ELSE [k |-> "caught", n |-> 0]
      [] v.t = "float" -> [k |-> "ok", n |-> v.n]
      [] v.t = "inf" -> [k |-> "OverflowError", n |-> 0]
      [] OTHER -> [k |-> "caught", n |-> 0]

\* ------------------------------------------------------- validate_input
\* (None, error_message)
Invalid(msg) == [v |-> Null, err |-> Str(msg), exc |-> "none"]
\* (ValidatedInput, None)
Valid(vi) == [v |-> vi, err |-> Null, exc |-> "none"]
\* validate_input left by an exception it does not catch.
Raised(name) == [v |-> Null, err |-> Null, exc |-> name]

\* The first check of the loop over the inline vectors that v fails.
VectorFault(v) ==
    IF v.t # "dict" THEN "not_object"
    ELSE IF ~HasKey(v, EMBEDDING) THEN "no_embedding"
    ELSE LET emb == DictGet(v, EMBEDDING, Null)
         IN  IF emb.t # "list" \/ emb.l = <<>> THEN "bad_embedding" ELSE "none"

VectorFaultMessage(i, fault) ==
    CASE fault = "not_object" ->
           <<"vectors[">> \o Digits(i) \o <<"] is not an object.">>
      [] fault = "no_embedding" ->
           <<"vectors[">> \o Digits(i)
             \o <<"] is missing 'embedding' field. Each vector must have an 'embedding' array of floats.">>
      [] OTHER ->
           <<"vectors[">> \o Digits(i)
             \o <<"]['embedding'] must be a non-empty array of numbers.">>

\* NoSource with the check left out.
NoSourceNever(has_dataset, has_vectors) == FALSE

\* `if not has_dataset and not has_vectors:`
NoSource(has_dataset, has_vectors) == ~has_dataset /\ ~has_vectors

\* CheckVectors without `and not has_dataset`.
CheckVectorsAlone(has_vectors, has_dataset) == has_vectors

\* `if has_vectors and not has_dataset:`, whose else sets vectors to None.
CheckVectors(has_vectors, has_dataset) == has_vectors /\ ~has_dataset

validate_input(actor_input) ==
    LET \* --- Provider ---
        provider0 == Get(actor_input.provider, Str(PINECONE))
        provider == ToLower(Strip(IF provider0.t # "str" THEN PINECONE ELSE provider0.s))
        \* --- API key ---
        api_key0 == Get(actor_input.api_key, Str(<<>>))
        api_key == Strip(IF api_key0.t # "str" THEN <<>> ELSE api_key0.s)
        \* --- Index / Collection name ---
        index_name0 == Get(actor_input.index_name, Str(<<>>))
        index_name == Strip(IF index_name0.t # "str" THEN <<>> ELSE index_name0.s)
        \* --- Qdrant cluster URL ---
        environment0 == Get(actor_input.environment, Null)
        envMissing == ~Truthy(environment0) \/ environment0.t # "str"
        environment1 == RStripChar(Strip(environment0.s), "/")
        environment == IF provider = QDRANT THEN Str(environment1) ELSE Null
        \* --- Namespace ---
        namespace0 == Get(actor_input.namespace, Str(<<>>))
        namespace == Strip(IF namespace0.t # "str" THEN <<>> ELSE namespace0.s)
        \* --- Distance metric ---
        distance0 == Get(actor_input.distance_metric, Str(<<"C","o","s","i","n","e">>))
        distance_metric == IF distance0.t # "str" THEN <<"C","o","s","i","n","e">> ELSE distance0.s
        \* --- Input sources ---
        dataset_id0 == Get(actor_input.dataset_id, Null)
        vectors0 == Get(actor_input.vectors, Null)
        has_dataset == dataset_id0.t = "str" /\ Strip(dataset_id0.s) # <<>>
        has_vectors == vectors0.t = "list" /\ Len(vectors0.l) > 0
        dataset_id == IF has_dataset THEN Str(Strip(dataset_id0.s)) ELSE Null
        checkVectors == CheckVectors(has_vectors, has_dataset)
        vectors == IF checkVectors THEN vectors0 ELSE Null
        faulty == {i \in 1..Len(vectors0.l) : VectorFault(vectors0.l[i]) # "none"}
        \* --- batch_size ---
        batch0 == Get(actor_input.batch_size, IntV(DEFAULT_BATCH_SIZE))
        isInt == batch0.t \in {"int", "bool"}
        conv == PyInt(batch0)
        batch_size == IF isInt THEN batch0.n ELSE conv.n
        max_batch == IF provider = PINECONE
                     THEN MAX_BATCH_SIZE_PINECONE ELSE MAX_BATCH_SIZE_QDRANT
        \* --- id_field ---
        id_field0 == Get(actor_input.id_field, Str(CHUNK_ID))
        id_field1 == Strip(IF id_field0.t # "str" THEN CHUNK_ID ELSE id_field0.s)
        id_field == IF id_field1 = <<>> THEN CHUNK_ID ELSE id_field1
    IN
    IF provider \notin VALID_PROVIDERS THEN
        Invalid(<<"Invalid provider '">> \o provider
                \o <<"'. Must be one of: pinecone, qdrant.">>)
    ELSE IF api_key = <<>> THEN
        Invalid(<<"API key is required. Provide your Pinecone or Qdrant API key.">>)
    ELSE IF index_name = <<>> THEN
        Invalid(<<"Index/collection name is required. Pinecone: your index name. Qdrant: your collection name.">>)
    ELSE IF ~_INDEX_NAME_PATTERN(index_name) THEN
        Invalid(<<"Invalid index/collection name: '">> \o index_name
                \o <<"'. Must be alphanumeric (with hyphens/underscores), 1-64 characters, starting with a letter or digit.">>)
    ELSE IF provider = QDRANT /\ envMissing THEN
        Invalid(<<"Qdrant cluster URL is required. Provide your Qdrant Cloud URL (e.g., 'https://xyz.us-east-1.aws.cloud.qdrant.io:6333').">>)
    ELSE IF provider = QDRANT /\ ~_QDRANT_URL_PATTERN(environment1) THEN
        Invalid(<<"Invalid Qdrant cluster URL: '">> \o environment1
                \o <<"'. Must match pattern: https://{cluster}.cloud.qdrant.io:6333">>)
    ELSE IF namespace # <<>> /\ ~_NAMESPACE_PATTERN(namespace) THEN
        Invalid(<<"Invalid namespace: '">> \o namespace
                \o <<"'. Must be alphanumeric with hyphens/underscores/dots, max 64 characters.">>)
    ELSE IF distance_metric \notin VALID_DISTANCE_METRICS THEN
        Invalid(<<"Invalid distance metric '">> \o distance_metric
                \o <<"'. Must be one of: Cosine, Dot, Euclid.">>)
    ELSE IF NoSource(has_dataset, has_vectors) THEN
        Invalid(<<"No input provided. Supply either 'dataset_id' (from RAG Embedding Generator output) or 'vectors' (raw vector array).">>)
    ELSE IF has_dataset /\ ~_DATASET_ID_PATTERN(dataset_id.s) THEN
        Invalid(<<"Invalid dataset_id format: '">> \o dataset_id.s
                \o <<"'. Must be alphanumeric (with hyphens/underscores), 1-64 characters.">>)
    ELSE IF checkVectors /\ Len(vectors0.l) > MAX_VECTORS_COUNT THEN
        Invalid(<<"Too many vectors: ">> \o DigitsComma(Len(vectors0.l))
                \o <<" provided, maximum is 50,000.">>)
    ELSE IF checkVectors /\ faulty # {} THEN
        Invalid(VectorFaultMessage(SetMin(faulty) - 1,
                                   VectorFault(vectors0.l[SetMin(faulty)])))
    ELSE IF ~isInt /\ conv.k = "caught" THEN
        Invalid(<<"batch_size must be an integer, got '">> \o PyStr(batch0) \o <<"'.">>)
    ELSE IF ~isInt /\ conv.k # "ok" THEN
        Raised(conv.k)
    ELSE IF batch_size < 1 \/ batch_size > max_batch THEN
        Invalid(<<"batch_size must be between 1 and ">> \o Digits(max_batch)
                \o <<" for ">> \o provider \o <<", got ">>
                \o (IF isInt THEN PyRepr(batch0) ELSE Digits(batch_size)) \o <<".">>)
    ELSE IF ~_FIELD_NAME_PATTERN(id_field) THEN
        Invalid(<<"Invalid id_field: '">> \o id_field
                \o <<"'. Must start with a letter or underscore, contain only alphanumeric characters, underscores, or dots.">>)
    ELSE
        Valid([api_key |-> api_key,
               provider |-> provider,
               index_name |-> index_name,
               environment |-> environment,
               namespace |-> namespace,
               distance_metric |-> distance_metric,
               dataset_id |-> dataset_id,
               vectors |-> vectors,
               batch_size |-> batch_size,
               id_field |-> id_field])

\* ------------------------------------------------------- pricing.py
\* PER_VECTOR_RATE = 0.0004, in millionths of a dollar.
PER_VECTOR_RATE_MICRO == 400

\* calculate_billing: the amount in millionths of a dollar (round(.., 6)).
calculate_billing(total_vectors) ==
    [total_vectors |-> total_vectors,
     amount_micro |-> total_vectors * PER_VECTOR_RATE_MICRO,
     rate_micro |-> PER_VECTOR_RATE_MICRO]

\* ------------------------------------------------------- payload builders
SKIP_FIELDS ==
    {EMBEDDING, <<"_","s","u","m","m","a","r","y">>, <<"i","n","d","e","x">>,
     <<"d","i","m","e","n","s","i","o","n","s">>}
SUMMARY_KEY == <<"_","s","u","m","m","a","r","y">>

\* str(uuid.uuid4()): the n-th identifier generated in the run, each distinct
\* from every other and from the ids the items carry.
Uuid4(n) == <<"u","u","i","d","4","-">> \o Digits(n)

\* A changed copy of NeedsUuid, without the isinstance check.
NeedsUuidFalsyOnly(item, id_field) ==
    ~Truthy(DictGet(item, id_field, Str(<<>>)))

\* The item's value at id_field is no usable id: a fresh one is generated.
NeedsUuid(item, id_field) ==
    LET vec_id == DictGet(item, id_field, Str(<<>>))
    IN  ~Truthy(vec_id) \/ vec_id.t # "str"

\* Pinecone metadata values: str, int, float, bool, list of str.
PineconeKeeps(value) ==
    \/ value.t \in {"str", "int", "float", "bool", "inf", "nan"}
    \/ value.t = "list" /\ \A i \in 1..Len(value.l) : value.l[i].t = "str"

\* Qdrant payload values: str, int, float, bool, list, dict.
QdrantKeeps(value) ==
    value.t \in {"str", "int", "float", "bool", "inf", "nan", "list", "dict"}

\* The loop over item.items() of both builders.
BuildMetadata(item, id_field, who) ==
    SelectSeq(item.l, LAMBDA kv : /\ kv.k \notin SKIP_FIELDS
                                  /\ kv.k # id_field
                                  /\ IF who = "Pinecone" THEN PineconeKeeps(kv.v)
                                     ELSE QdrantKeeps(kv.v))

\* _build_pinecone_vector; fresh is the id uuid4 returns if it is called.
_build_pinecone_vector(item, id_field, fresh) ==
    [id |-> IF NeedsUuid(item, id_field) THEN fresh
            ELSE DictGet(item, id_field, Str(<<>>)).s,
     values |-> DictGet(item, EMBEDDING, ListV(<<>>)),
     metadata |-> BuildMetadata(item, id_field, "Pinecone")]

\* _build_qdrant_point
_build_qdrant_point(item, id_field, fresh) ==
    [id |-> IF NeedsUuid(item, id_field) THEN fresh
            ELSE DictGet(item, id_field, Str(<<>>)).s,
     values |-> DictGet(item, EMBEDDING, ListV(<<>>)),
     metadata |-> BuildMetadata(item, id_field, "Qdrant")]

\* The number of uuid4 calls made for items[1..k].
RECURSIVE UuidsBefore(_, _, _)
UuidsBefore(items, k, id_field) ==
    IF k = 0 THEN 0
    ELSE UuidsBefore(items, k - 1, id_field)
         + (IF NeedsUuid(items[k], id_field) THEN 1 ELSE 0)

\* for i, item in enumerate(items): records.append(build(item, i, id_field))
BuildAll(items, id_field, who) ==
    [i \in 1..Len(items) |->
        IF who = "Pinecone"
        THEN _build_pinecone_vector(items[i], id_field,
                                    Uuid4(UuidsBefore(items, i, id_field)))
        ELSE _build_qdrant_point(items[i], id_field,
                                 Uuid4(UuidsBefore(items, i, id_field)))]

\* ------------------------------------------------------------------ state
VARIABLES
    actor_input,        \* Actor.get_input()
    pc,                 \* where main (and the writer it awaits) stands
    validated,          \* validate_input's ValidatedInput, or Null
    error,              \* validate_input's error message, or Null
    fail_message,       \* the status_message given to Actor.fail, or Null
    dataset_opened,     \* Actor.open_dataset has been called
    items,              \* main's items
    records,            \* the writer's vectors / points
    host,               \* Pinecone: the resolved data-plane host
    batch_start,        \* the writer's loop variable
    total_upserted,
    total_batches,
    collection_created,
    result,             \* the dict the writer returns, or Null
    summary,            \* the items given to Actor.push_data
    billing,            \* main's billing, None until calculate_billing returns
    call,               \* the _request_with_retry call in progress
    resp,               \* the parsed JSON the call returned
    exc,                \* the exception the call raised
    requested,          \* every (method, url) a request was sent to
    requests_sent,      \* the requests sent in the run, where they are counted
    batches,            \* the payload of each upsert call started, in order
    acks,               \* the status each returned Qdrant upsert call carried
    calls_made,         \* the number of _request_with_retry calls started
    call_sent,          \* the requests the call in progress has sent
    call_status,        \* the outcome of the last of them (0: none yet)
    sleeps              \* the asyncio.sleep delays of the call in progress

mainVars == <<actor_input, pc, validated, error, fail_message, dataset_opened,
              items, result, summary, billing>>
writerVars == <<records, host, batch_start, total_upserted, total_batches,
                collection_created, batches, acks>>
clientVars == <<call, resp, exc, requested, requests_sent, calls_made, call_sent,
                call_status, sleeps>>
vars == <<mainVars, writerVars, clientVars>>

\* ------------------------------------------------- _request_with_retry
_MAX_RETRIES == 3
_BASE_DELAY == 1
_REQUEST_TIMEOUT == 60
ACCEPT_STATUSES == {200}
NON_RETRYABLE_STATUSES == {400, 401, 403}
RETRYABLE_STATUSES == {429, 500, 502, 503, 504}

\* 2 ** attempt
RECURSIVE Pow2(_)
Pow2(k) == IF k = 0 THEN 1 ELSE 2 * Pow2(k - 1)

\* delay = _BASE_DELAY * (2 ** attempt)
Delay(attempt) == _BASE_DELAY * Pow2(attempt)

\* What a request can come back with: a response (its status, and its body
\* text or, for an accepted status, its JSON), an aiohttp.ClientError with
\* its text, or the asyncio.TimeoutError of ClientTimeout(total=60), which
\* is no aiohttp.ClientError.
NetworkError == 0 - 1
TimedOut == 0 - 2
ServerStatuses == {200, 201, 400, 401, 403, 404, 429, 500, 502, 503, 504}

NoExc == [type |-> "none", msg |-> <<>>]
ValueError(msg) == [type |-> "ValueError", msg |-> msg]
TimeoutError == [type |-> "TimeoutError", msg |-> <<>>]

IdleCall ==
    [state |-> "idle", kind |-> "none", who |-> "none", method |-> "none",
     url |-> <<>>, payload |-> <<>>, attempt |-> 0, last_error |-> Null]

\* The state of a call of _request_with_retry(session, method, url, headers,
\* payload, api_key) on entry to its loop.
NewCall(kind, who, method, url, payload) ==
    [state |-> "ready", kind |-> kind, who |-> who, method |-> method,
     url |-> url, payload |-> payload, attempt |-> 0, last_error |-> Null]

\* raise ValueError for status 400, 401 or 403.
NonRetryableError(who, status, safe_body) ==
    IF status = 401
    THEN ValueError(<<who, " API key is invalid or expired. Check your key and try again.">>)
    ELSE ValueError(<<who, " API error (">> \o Digits(status) \o <<"): ">> \o safe_body)

UnexpectedError(who, status, safe_body) ==
    ValueError(<<"Unexpected ", who, " response (">> \o Digits(status)
               \o <<"): ">> \o safe_body)

\* last_error of a retryable status, and of an aiohttp.ClientError.
RetryableStatusError(who, status, safe_body) ==
    <<who, " returned ">> \o Digits(status) \o <<": ">> \o safe_body
NetworkErrorText(text) == <<"Network error: ">> \o text

\* The raise after the loop.
ExhaustedError(who, last_error) ==
    ValueError(<<who, ": failed after ">> \o Digits(_MAX_RETRIES)
               \o <<" attempts. Last error: ">> \o PyStr(last_error))

\* AfterSleep with a loop of one pass more than range(_MAX_RETRIES).
AfterSleepOneMore(c, last_error) ==
    IF c.attempt < _MAX_RETRIES
    THEN [call |-> [c EXCEPT !.attempt = c.attempt + 1,
                             !.last_error = Str(last_error),
                             !.state = "ready"],
          exc |-> NoExc]
    ELSE [call |-> [c EXCEPT !.attempt = c.attempt + 1,
                             !.last_error = Str(last_error),
                             !.state = "raised"],
          exc |-> ExhaustedError(c.who, Str(last_error))]

\* The loop's `continue` (or fall through) after a sleep: the next attempt,
\* or the raise after the loop when range(_MAX_RETRIES) is used up.
AfterSleep(c, last_error) ==
    IF c.attempt + 1 < _MAX_RETRIES
    THEN [call |-> [c EXCEPT !.attempt = c.attempt + 1,
                             !.last_error = Str(last_error),
                             !.state = "ready"],
          exc |-> NoExc]
    ELSE [call |-> [c EXCEPT !.attempt = c.attempt + 1,
                             !.last_error = Str(last_error),
                             !.state = "raised"],
          exc |-> ExhaustedError(c.who, Str(last_error))]

\* Classify with 403 taken for a retryable status.
ClassifyRetrying403(status) ==
    IF status \in ACCEPT_STATUSES THEN "return"
    ELSE IF status \in RETRYABLE_STATUSES \cup {403} THEN "retry"
    ELSE IF status \in NON_RETRYABLE_STATUSES THEN "raise"
    ELSE "unexpected"

\* Classify with every status that is not named taken for a retryable one.
ClassifyRetryingOthers(status) ==
    IF status \in ACCEPT_STATUSES THEN "return"
    ELSE IF status \in NON_RETRYABLE_STATUSES THEN "raise"
    ELSE "retry"

\* The if-chain on resp.status: which branch of the loop body a status takes.
Classify(status) ==
    IF status \in ACCEPT_STATUSES THEN "return"
    ELSE IF status \in NON_RETRYABLE_STATUSES THEN "raise"
    ELSE IF status \in RETRYABLE_STATUSES THEN "retry"
    ELSE "unexpected"

\* One pass of the loop body once the request has come back with status and
\* text: what the call becomes, the exception it raises, whether it slept.
HandleOutcome(c, status, text, api_key) ==
    LET safe_body == _sanitize_error(text, api_key)
    IN  IF status = TimedOut THEN
            [call |-> [c EXCEPT !.state = "raised"], exc |-> TimeoutError, slept |-> FALSE]
        ELSE IF status = NetworkError THEN
            AfterSleep(c, NetworkErrorText(text)) @@ [slept |-> TRUE]
        ELSE IF Classify(status) = "return" THEN
            [call |-> [c EXCEPT !.state = "returned"], exc |-> NoExc, slept |-> FALSE]
        ELSE IF Classify(status) = "raise" THEN
            [call |-> [c EXCEPT !.state = "raised"],
             exc |-> NonRetryableError(c.who, status, safe_body), slept |-> FALSE]
        ELSE IF Classify(status) = "retry" THEN
            AfterSleep(c, RetryableStatusError(c.who, status, safe_body)) @@ [slept |-> TRUE]
        ELSE
            [call |-> [c EXCEPT !.state = "raised"],
             exc |-> UnexpectedError(c.who, status, safe_body), slept |-> FALSE]

\* ------------------------------------------------------------- the client
\* The text a provider's error body, or an aiohttp.ClientError's str(), may
\* hold: nothing of the key, the key itself, or the key's first characters.
OOPS == <<"o","o","p","s">>
ErrorTexts(api_key) ==
    {OOPS,
     <<"k","e","y","="," ">> \o api_key,
     KeyPrefix(api_key) \o <<".",".",".">>}

\* The outcomes a request is given: every status with a plain body, and one
\* status of each kind, and the network error, with each of the texts.
LeakStatuses == {400, 503, 404, NetworkError}
Outcomes(api_key) ==
    {[status |-> st, text |-> <<>>] : st \in ACCEPT_STATUSES \cup {TimedOut}}
    \cup {[status |-> st, text |-> OOPS] :
             st \in (ServerStatuses \ ACCEPT_STATUSES) \cup {NetworkError}}
    \cup {[status |-> st, text |-> t] : st \in LeakStatuses, t \in ErrorTexts(api_key)}

K_HOST == <<"h","o","s","t">>
K_RESULT == <<"r","e","s","u","l","t">>
K_EXISTS == <<"e","x","i","s","t","s">>
K_UPSERTED_COUNT == <<"u","p","s","e","r","t","e","d","C","o","u","n","t">>
K_STATUS == <<"s","t","a","t","u","s">>
S_OK == <<"o","k">>
DATA_PLANE_HOST == <<"i","d","x","-","1",".","s","v","c",".","p","i","n","e","c","o","n","e",".","i","o">>

\* The JSON an accepted response to a call of each kind may carry. Every
\* accepted response is taken to hold a JSON object, so that resp.json()
\* returns: one that does not is outside these outcomes.
JsonBodies(c) ==
    CASE c.kind = "resolve" ->
           {DictV(<<KV(K_HOST, Str(DATA_PLANE_HOST))>>),
            DictV(<<KV(K_HOST, Str(<<>>))>>),
            DictV(<<>>)}
      [] c.kind = "exists" ->
           {DictV(<<KV(K_RESULT, DictV(<<KV(K_EXISTS, BoolV(TRUE))>>))>>),
            DictV(<<KV(K_RESULT, DictV(<<KV(K_EXISTS, BoolV(FALSE))>>))>>),
            DictV(<<>>)}
      [] c.kind = "create" ->
           {DictV(<<KV(K_RESULT, BoolV(TRUE))>>)}
      [] c.kind = "upsert" /\ c.who = "Pinecone" ->
           {DictV(<<KV(K_UPSERTED_COUNT, IntV(Len(c.payload)))>>),
            DictV(<<KV(K_UPSERTED_COUNT, IntV(0))>>),
            DictV(<<>>)}
      [] OTHER ->
           {DictV(<<KV(K_STATUS, Str(S_OK))>>),
            DictV(<<KV(K_STATUS, Str(<<"e","r","r","o","r">>))>>),
            DictV(<<>>)}

\* session.request(method, url, **kwargs): the request of one attempt leaves.
SendRequest ==
    /\ call.state = "ready"
    /\ call' = [call EXCEPT !.state = "inflight"]
    /\ requested' = requested \cup {[method |-> call.method, url |-> call.url]}
    /\ call_sent' = call_sent + 1
    /\ UNCHANGED <<mainVars, writerVars, resp, exc, calls_made, call_status, sleeps>>

\* The request leaves; the run's requests are not counted.
ClientSend == SendRequest /\ UNCHANGED requests_sent

\* The request leaves and is counted among the requests of the run.
ClientSendCounted == SendRequest /\ requests_sent' = requests_sent + 1

\* The request comes back and the rest of the loop body runs: return, raise,
\* or sleep and go round again (or leave the loop and raise).
ClientReceive ==
    /\ call.state = "inflight"
    /\ \E o \in Outcomes(validated.api_key) :
       \E data \in (IF o.status \in ACCEPT_STATUSES THEN JsonBodies(call) ELSE {Null}) :
         LET h == HandleOutcome(call, o.status, o.text, validated.api_key)
         IN  /\ call' = h.call
             /\ exc' = h.exc
             /\ resp' = IF h.call.state = "returned" THEN data ELSE resp
             /\ sleeps' = IF h.slept THEN Append(sleeps, Delay(call.attempt)) ELSE sleeps
             /\ call_status' = o.status
    /\ UNCHANGED <<mainVars, writerVars, requested, requests_sent, calls_made, call_sent>>

\* A writer calls _request_with_retry.
StartCall(kind, who, method, url, payload) ==
    /\ call' = NewCall(kind, who, method, url, payload)
    /\ calls_made' = calls_made + 1
    /\ call_sent' = 0
    /\ call_status' = 0
    /\ sleeps' = <<>>
    /\ resp' = Null
    /\ exc' = NoExc
    /\ UNCHANGED <<requested, requests_sent>>

\* ------------------------------------------------------------------ main
\* await Actor.fail(status_message=msg); return
Fail(msg) ==
    /\ pc' = "failed"
    /\ fail_message' = Str(msg)

\* main's except clauses: str(exc) of a ValueError, the type's name otherwise.
ExceptMessage(e) ==
    IF e.type = "ValueError" THEN e.msg
    ELSE <<"Internal error: ", e.type, ". Check logs.">>

\* ErrorStops with the check left out.
ErrorStopsNever(err) == FALSE

\* `if error:` after validate_input.
ErrorStops(err) == Truthy(err)

\* main, to the end of `if error:`.
Validate ==
    /\ pc = "start"
    /\ LET r == validate_input(actor_input)
       IN  /\ validated' = r.v
           /\ error' = r.err
           /\ IF r.exc # "none"
              THEN pc' = "crashed" /\ UNCHANGED fail_message
              ELSE IF ErrorStops(r.err)
              THEN pc' = "failed" /\ fail_message' = r.err
              ELSE pc' = "load" /\ UNCHANGED fail_message
    /\ UNCHANGED <<actor_input, dataset_opened, items, result, summary, billing,
                   writerVars, clientVars>>

\* What Actor.open_dataset and get_data may give for a dataset id: opens is
\* FALSE when either raises.
SummaryRow == DictV(<<KV(SUMMARY_KEY, BoolV(TRUE))>>)
NoEmbeddingRow == DictV(<<KV(CHUNK_ID, Str(<<"c","0">>))>>)
ItemOf(i) ==
    CASE i = 2 ->
           DictV(<<KV(EMBEDDING, ListV(<<FloatV(i), FloatV(0)>>)),
                   KV(<<"t","a","g","s">>, ListV(<<Str(<<"a">>), Str(<<"b">>)>>)),
                   KV(<<"m","e","t","a">>, DictV(<<KV(<<"p">>, IntV(1))>>))>>)
      [] i = 3 ->
           DictV(<<KV(CHUNK_ID, IntV(7)),
                   KV(EMBEDDING, ListV(<<FloatV(i), FloatV(0)>>)),
                   KV(<<"i","n","d","e","x">>, IntV(i)),
                   KV(<<"n","o","t","e">>, Null)>>)
      [] OTHER ->
           DictV(<<KV(CHUNK_ID, Str(<<"c">> \o Digits(i))),
                   KV(EMBEDDING, ListV(<<FloatV(i), FloatV(0)>>)),
                   KV(<<"t","e","x","t">>, Str(<<"h","i">>))>>)
ItemsTo(n) == [i \in 1..n |-> ItemOf(i)]
DatasetContents ==
    {[opens |-> FALSE, rows |-> <<>>],
     [opens |-> TRUE, rows |-> <<>>],
     [opens |-> TRUE, rows |-> <<SummaryRow>>],
     [opens |-> TRUE, rows |-> <<NoEmbeddingRow, SummaryRow>>]}
    \cup {[opens |-> TRUE, rows |-> <<NoEmbeddingRow>> \o ItemsTo(n) \o <<SummaryRow>>] :
            n \in 1..MaxItems}

\* _load_dataset: the items it returns, or the ValueError it raises.
_load_dataset(dataset_id, content) ==
    LET embedding_items ==
            SelectSeq(content.rows,
                      LAMBDA item : /\ item.t = "dict"
                                    /\ ~Truthy(DictGet(item, SUMMARY_KEY, BoolV(FALSE))))
        valid_items ==
            SelectSeq(embedding_items,
                      LAMBDA item : LET emb == DictGet(item, EMBEDDING, Null)
                                    IN  emb.t = "list" /\ Len(emb.l) > 0)
    IN  IF ~content.opens THEN
            [items |-> <<>>,
             exc |-> ValueError(<<"Could not load dataset '">> \o dataset_id
                       \o <<"'. Verify the dataset ID exists and this actor has access to it.">>)]
        ELSE IF content.rows = <<>> THEN
            [items |-> <<>>,
             exc |-> ValueError(<<"Dataset '">> \o dataset_id
                       \o <<"' is empty or contains no items.">>)]
        ELSE IF embedding_items = <<>> THEN
            [items |-> <<>>,
             exc |-> ValueError(<<"Dataset '">> \o dataset_id
                       \o <<"' contains no embedding items (only summary rows found).">>)]
        ELSE IF valid_items = <<>> THEN
            [items |-> <<>>,
             exc |-> ValueError(<<"No items with valid 'embedding' arrays found in dataset '">>
                       \o dataset_id
                       \o <<"'. Ensure the dataset was produced by RAG Embedding Generator or contains items with 'embedding' fields.">>)]
        ELSE [items |-> valid_items, exc |-> NoExc]

\* A changed copy of DatasetMode: the dataset never used.
DatasetModeNever(v) == FALSE

\* `if validated.dataset_id:` of main: dataset mode takes priority.
DatasetMode(v) == Truthy(v.dataset_id)

\* main: the items, from the dataset (which takes priority) or the input.
LoadItems ==
    /\ pc = "load"
    /\ IF validated = Null THEN
           \* validated.dataset_id of None: an AttributeError, caught by
           \* `except Exception`.
           /\ Fail(<<"Internal error: ", "AttributeError", ". Check logs.">>)
           /\ UNCHANGED <<dataset_opened, items>>
       ELSE IF DatasetMode(validated) THEN
           /\ dataset_opened' = TRUE
           /\ \E content \in DatasetContents :
                LET r == _load_dataset(validated.dataset_id.s, content)
                IN  IF r.exc # NoExc
                    THEN Fail(ExceptMessage(r.exc)) /\ UNCHANGED items
                    ELSE /\ items' = r.items
                         /\ pc' = "route"
                         /\ UNCHANGED fail_message
       ELSE
           /\ UNCHANGED dataset_opened
           /\ items' = IF Truthy(validated.vectors) THEN validated.vectors.l ELSE <<>>
           /\ IF items' = <<>>
              THEN Fail(<<"No vectors to write after processing input.">>)
              ELSE pc' = "route" /\ UNCHANGED fail_message
    /\ UNCHANGED <<actor_input, validated, error, result, summary, billing,
                   writerVars, clientVars>>

\* The call a writer awaits raised and the writer does not catch it: main's
\* except clauses report it.
WriterRaised ==
    /\ pc \in {"p_resolve", "p_upsert", "q_exists", "q_create", "q_upsert"}
    /\ call.state = "raised"
    /\ ~(pc = "q_exists" /\ exc.type = "ValueError")
    /\ Fail(ExceptMessage(exc))
    /\ call' = IdleCall
    /\ UNCHANGED <<actor_input, validated, error, dataset_opened, items, result,
                   summary, billing, writerVars, resp, exc, requested, requests_sent, calls_made,
                   call_sent, call_status, sleeps>>

\* A changed copy of NothingUpserted: the zero check never taken.
NothingUpsertedNever(total_vectors) == FALSE

\* `if total_vectors == 0:` of main.
NothingUpserted(total_vectors) == total_vectors = 0

\* main after the writer has returned: the zero check, billing, push_data.
Summarize ==
    /\ pc = "summarize"
    /\ LET total_vectors == result.total_upserted
       IN  IF NothingUpserted(total_vectors) THEN
               /\ Fail(<<"No vectors were upserted. The provider accepted the request but reported 0 vectors written. Check your index/collection configuration.">>)
               /\ UNCHANGED <<summary, billing>>
           ELSE
               /\ billing' = calculate_billing(total_vectors)
               /\ summary' = Append(summary,
                      [provider |-> validated.provider,
                       total_vectors_upserted |-> total_vectors,
                       total_batches |-> result.total_batches,
                       billing |-> billing',
                       collection_created |-> result.collection_created])
               /\ pc' = "done"
               /\ UNCHANGED fail_message
    /\ UNCHANGED <<actor_input, validated, error, dataset_opened, items, result,
                   writerVars, clientVars>>

\* ------------------------------------------------------- write_to_pinecone
_CONTROL_PLANE_URL == <<"https://api.pinecone.io">>
ControlPlaneUrl(index_name) == _CONTROL_PLANE_URL \o <<"/indexes/">> \o index_name
\* A changed copy of PineconeUpsertUrl: the control plane in place of the host.
PineconeUpsertUrlFixed(h) == _CONTROL_PLANE_URL \o <<"/vectors/upsert">>

\* f"{base_url}/vectors/upsert" with base_url = f"https://{host}"
PineconeUpsertUrl(h) == <<"https://">> \o PyStr(h) \o <<"/vectors/upsert">>

\* Batch without the slice's upper end.
BatchToEnd(recs, start, batch_size) == SubSeq(recs, start + 1, Len(recs))

\* batch = records[batch_start:min(batch_start + batch_size, len(records))]
Batch(recs, start, batch_size) ==
    SubSeq(recs, start + 1,
           IF start + batch_size < Len(recs) THEN start + batch_size ELSE Len(recs))

\* A changed copy of NextStart: the loop stepping by one item.
NextStartByOne(start, batch_size) == start + 1

\* A changed copy of NextStart: every other batch passed over.
NextStartSkipping(start, batch_size) == start + 2 * batch_size

\* The step of range(0, len(records), batch_size).
NextStart(start, batch_size) == start + batch_size

\* A changed copy of MoreBatches: the loop body never entered.
MoreBatchesNever(start, recs) == FALSE

\* `for batch_start in range(0, len(records), batch_size)`: one more pass.
MoreBatches(start, recs) == start < Len(recs)

\* The loop `for batch_start in range(0, len(records), batch_size)` reaches
\* the batch at `start`: its upsert call begins, or, the range used up, the
\* writer returns its summary dict to main.
NextBatchOrReturn(who, url, recs, start, upserted, nbatches, created) ==
    IF MoreBatches(start, recs) THEN
        /\ batch_start' = start
        /\ batches' = Append(batches, Batch(recs, start, validated.batch_size))
        /\ StartCall("upsert", who, IF who = "Pinecone" THEN "POST" ELSE "PUT", url,
                     Batch(recs, start, validated.batch_size))
        /\ pc' = IF who = "Pinecone" THEN "p_upsert" ELSE "q_upsert"
        /\ UNCHANGED result
    ELSE
        /\ result' = [provider |-> validated.provider,
                      total_upserted |-> upserted,
                      total_batches |-> nbatches,
                      collection_created |-> created]
        /\ pc' = "summarize"
        /\ call' = IdleCall
        /\ UNCHANGED <<batch_start, batches, resp, exc, requested, requests_sent, calls_made,
                       call_sent, call_status, sleeps>>

\* main routes to write_to_pinecone, which calls _resolve_index_host.
PineconeStart ==
    /\ pc = "route"
    /\ validated.provider = PINECONE
    /\ StartCall("resolve", "Pinecone", "GET",
                 ControlPlaneUrl(validated.index_name), <<>>)
    /\ pc' = "p_resolve"
    /\ UNCHANGED <<actor_input, validated, error, fail_message, dataset_opened,
                   items, result, summary, billing, writerVars>>

\* _resolve_index_host after its call returned, then write_to_pinecone up to
\* the first upsert call: the host check, the vectors built, the first batch.
PineconeResolved ==
    /\ pc = "p_resolve"
    /\ call.state = "returned"
    /\ LET h == DictGet(resp, K_HOST, Null)
       IN  IF ~Truthy(h) THEN
               /\ Fail(<<"Could not resolve host for Pinecone index '">>
                       \o validated.index_name
                       \o <<"'. Verify the index exists in your Pinecone project.">>)
               /\ call' = IdleCall
               /\ UNCHANGED <<result, writerVars, resp, exc, requested, requests_sent, calls_made,
                              call_sent, call_status, sleeps>>
           ELSE
               /\ host' = h
               /\ records' = BuildAll(items, validated.id_field, "Pinecone")
               /\ NextBatchOrReturn("Pinecone", PineconeUpsertUrl(h), records', 0, 0, 0, FALSE)
               /\ UNCHANGED <<fail_message, total_upserted, total_batches,
                              collection_created, acks>>
    /\ UNCHANGED <<actor_input, validated, error, dataset_opened, items, summary, billing>>

\* An upsert call returned: the count added, then the next batch or return.
PineconeUpserted ==
    /\ pc = "p_upsert"
    /\ call.state = "returned"
    /\ LET count == DictGet(resp, K_UPSERTED_COUNT, IntV(0)).n
       IN  /\ total_upserted' = total_upserted + count
           /\ total_batches' = total_batches + 1
           /\ NextBatchOrReturn("Pinecone", call.url, records,
                                NextStart(batch_start, validated.batch_size),
                                total_upserted', total_batches', FALSE)
    /\ UNCHANGED <<actor_input, validated, error, fail_message, dataset_opened,
                   items, summary, billing, records, host, collection_created, acks>>

\* --------------------------------------------------------- write_to_qdrant
QdrantExistsUrl(cluster_url, name) ==
    cluster_url \o <<"/collections/">> \o name \o <<"/exists">>
QdrantCreateUrl(cluster_url, name) == cluster_url \o <<"/collections/">> \o name
QdrantUpsertUrl(cluster_url, name) ==
    cluster_url \o <<"/collections/">> \o name \o <<"/points">>

\* The payload of the create call: {"vectors": {"size", "distance"}}.
CreatePayload(vector_size, distance_metric) ==
    <<[size |-> vector_size, distance |-> distance_metric]>>

\* main routes to write_to_qdrant: the points built, the two checks, then
\* _ensure_collection's existence call.
QdrantStart ==
    /\ pc = "route"
    /\ validated.provider = QDRANT
    /\ LET points == BuildAll(items, validated.id_field, "Qdrant")
       IN  IF points = <<>> THEN
               /\ Fail(<<"No valid points to upsert.">>)
               /\ UNCHANGED <<records, clientVars>>
           ELSE IF Len(points[1].values.l) = 0 THEN
               /\ Fail(<<"First embedding has zero dimensions. Check that input items have valid 'embedding' arrays.">>)
               /\ UNCHANGED <<records, clientVars>>
           ELSE
               /\ records' = points
               /\ StartCall("exists", "Qdrant", "GET",
                            QdrantExistsUrl(validated.environment.s, validated.index_name),
                            <<>>)
               /\ pc' = "q_exists"
               /\ UNCHANGED fail_message
    /\ UNCHANGED <<actor_input, validated, error, dataset_opened, items, result,
                   summary, billing, host, batch_start, total_upserted, total_batches,
                   collection_created, batches, acks>>

\* _ensure_collection after the existence call: `return False` when it says
\* the collection exists (and the first upsert call begins), and otherwise,
\* also after a ValueError of the call, the create call.
QdrantExistsDone ==
    /\ pc = "q_exists"
    /\ \/ call.state = "returned"
       \/ call.state = "raised" /\ exc.type = "ValueError"
    /\ IF /\ call.state = "returned"
          /\ Truthy(DictGet(DictGet(resp, K_RESULT, DictV(<<>>)), K_EXISTS, BoolV(FALSE)))
       THEN
           /\ collection_created' = FALSE
           /\ NextBatchOrReturn("Qdrant",
                  QdrantUpsertUrl(validated.environment.s, validated.index_name),
                  records, 0, 0, 0, FALSE)
       ELSE
           /\ StartCall("create", "Qdrant", "PUT",
                  QdrantCreateUrl(validated.environment.s, validated.index_name),
                  CreatePayload(Len(records[1].values.l), validated.distance_metric))
           /\ pc' = "q_create"
           /\ UNCHANGED <<collection_created, batch_start, batches, result>>
    /\ UNCHANGED <<actor_input, validated, error, fail_message, dataset_opened,
                   items, summary, billing, records, host, total_upserted, total_batches,
                   acks>>

\* _ensure_collection's create call returned: `return True`, and the first
\* upsert call begins.
QdrantCreated ==
    /\ pc = "q_create"
    /\ call.state = "returned"
    /\ collection_created' = TRUE
    /\ NextBatchOrReturn("Qdrant",
           QdrantUpsertUrl(validated.environment.s, validated.index_name),
           records, 0, 0, 0, TRUE)
    /\ UNCHANGED <<actor_input, validated, error, fail_message, dataset_opened,
                   items, summary, billing, records, host, total_upserted, total_batches,
                   acks>>

\* A changed copy of StatusOk: every accepted response counts.
StatusOkAlways(status) == TRUE

\* `if status == "ok":` of the batch loop.
StatusOk(status) == status = Str(S_OK)

\* An upsert call returned: counted if its status is "ok", then the next
\* batch or return.
QdrantUpserted ==
    /\ pc = "q_upsert"
    /\ call.state = "returned"
    /\ LET status == DictGet(resp, K_STATUS, Str(<<>>))
           ok == StatusOk(status)
       IN  /\ acks' = Append(acks, status)
           /\ total_upserted' = IF ok THEN total_upserted + Len(call.payload)
                                ELSE total_upserted
           /\ total_batches' = IF ok THEN total_batches + 1 ELSE total_batches
           /\ NextBatchOrReturn("Qdrant", call.url, records,
                                NextStart(batch_start, validated.batch_size),
                                total_upserted', total_batches', collection_created)
    /\ UNCHANGED <<actor_input, validated, error, fail_message, dataset_opened,
                   items, summary, billing, records, host, collection_created>>

\* ------------------------------------------------------------- the inputs
\* An API key longer than its 8-character prefix, and a short one.
KEY == <<"s","k","-","1","2","3","4","5","a","b","c">>
SHORT_KEY == <<"k","9">>
IDX == <<"i","d","x">>
GOOD_URL == HTTPS \o <<"a","b","c",".","u","s","-","e","a","s","t">> \o CLOUD_QDRANT_IO
            \o <<":","6","3","3","3">>
EVIL_URL == HTTPS \o <<"e","v","i","l",".","c","o","m">>
Repeat(c, n) == [i \in 1..n |-> c]

\* A well-formed run input with n inline vectors and batch_size b.
BaseInput(provider, n, b) ==
    [provider |-> Str(provider),
     api_key |-> Str(KEY),
     index_name |-> Str(IDX),
     environment |-> IF provider = QDRANT THEN Str(GOOD_URL) ELSE Missing,
     namespace |-> Missing,
     distance_metric |-> Missing,
     dataset_id |-> Missing,
     vectors |-> ListV(ItemsTo(n)),
     batch_size |-> IntV(b),
     id_field |-> Missing]

FieldSeq == <<"provider", "api_key", "index_name", "environment", "namespace",
             "distance_metric", "dataset_id", "vectors", "batch_size", "id_field">>
Fields == Range(FieldSeq)

EnvironmentCandidates ==
    {Missing, Null, IntV(5), Str(<<>>), Str(<<" ", " ">>),
     Str(GOOD_URL),
     Str(GOOD_URL \o <<"/">>),
     Str(<<" ">> \o GOOD_URL \o <<"/", "/", " ">>),
     Str(HTTPS \o <<"a">> \o CLOUD_QDRANT_IO),
     Str(GOOD_URL \o <<"\n">>),
     Str(GOOD_URL \o <<"\n", "/">>),
     Str(GOOD_URL \o <<"/", "x">>),
     Str(GOOD_URL \o <<"a">>),
     Str(HTTPS \o <<"a">> \o CLOUD_QDRANT_IO \o <<":">>),
     Str(EVIL_URL),
     Str(EVIL_URL \o CLOUD_QDRANT_IO),
     Str(EVIL_URL \o <<"/">> \o CLOUD_QDRANT_IO),
     Str(EVIL_URL \o <<"#">> \o CLOUD_QDRANT_IO),
     Str(HTTPS \o <<"u","@","e","v","i","l">> \o CLOUD_QDRANT_IO),
     Str(GOOD_URL \o <<".","e","v","i","l",".","c","o","m">>),
     Str(<<"h","t","t","p",":","/","/","a">> \o CLOUD_QDRANT_IO),
     Str(HTTPS \o CLOUD_QDRANT_IO),
     Str(HTTPS \o KEY)}

\* The values the model tries for each input field.
Candidates ==
    [provider |->
        {Missing, Null, IntV(5), Str(PINECONE), Str(QDRANT),
         Str(<<" ","Q","d","r","a","n","t"," ">>),
         Str(<<"w","e","a","v","i","a","t","e">>), Str(KEY)},
     api_key |->
        {Missing, Null, IntV(5), Str(<<>>), Str(<<" ">>), Str(KEY),
         Str(<<" ">> \o KEY \o <<"\n">>), Str(SHORT_KEY)},
     index_name |->
        {Missing, IntV(5), Str(<<>>), Str(IDX), Str(<<" ">> \o IDX \o <<" ">>),
         Str(IDX \o <<"\n">>),
         Str(<<"m","y","-","i","n","d","e","x","_","1">>),
         Str(<<"-","b","a","d">>), Str(<<"a"," ","b">>), Str(<<"a","\f","b">>),
         Str(<<"a","/","b">>),
         Str(KEY), Str(<<"!">> \o KEY), Str(<<"!">> \o KeyPrefix(KEY)),
         Str(Repeat("a", PATTERN_TAIL + 1)), Str(Repeat("a", PATTERN_TAIL + 2))},
     environment |-> EnvironmentCandidates,
     namespace |->
        {Missing, IntV(5), Str(<<>>), Str(<<"p","r","o","d",".","n","s">>),
         Str(<<"b","a","d"," ","n","s">>), Str(KEY \o <<"!">>),
         Str(Repeat("n", NAMESPACE_MAX)), Str(Repeat("n", NAMESPACE_MAX + 1))},
     distance_metric |->
        {Missing, IntV(5), Str(<<"C","o","s","i","n","e">>), Str(<<"D","o","t">>),
         Str(<<"E","u","c","l","i","d">>), Str(<<"c","o","s","i","n","e">>),
         Str(KEY)},
     dataset_id |->
        {Missing, Null, IntV(5), Str(<<>>), Str(<<" ">>),
         Str(<<"d","s","~","1">>), Str(<<" ","d","s","~","1"," ">>),
         Str(<<"b","a","d"," ","i","d">>), Str(<<"~","x">>), Str(KEY),
         Str(KEY \o <<"?">>)},
     vectors |->
        {Missing, Null, Str(<<"x">>), DictV(<<>>), ListV(<<>>),
         ListV(ItemsTo(1)), ListV(ItemsTo(2)),
         ListV(<<IntV(1)>>),
         ListV(<<ItemOf(1), DictV(<<>>)>>),
         ListV(<<ItemOf(1), ItemOf(2), DictV(<<KV(EMBEDDING, Str(<<"x">>))>>)>>),
         ListV(<<DictV(<<KV(EMBEDDING, ListV(<<>>))>>)>>)},
     batch_size |->
        {Missing, Null, IntV(1), IntV(2), IntV(0), IntV(0 - 1),
         IntV(MAX_BATCH_SIZE_QDRANT), IntV(MAX_BATCH_SIZE_QDRANT + 1),
         IntV(MAX_BATCH_SIZE_PINECONE), IntV(MAX_BATCH_SIZE_PINECONE + 1),
         Str(<<"2">>), Str(<<" ","1","_","0"," ">>), Str(<<"x">>), Str(KEY),
         FloatV(1), InfV, NanV, BoolV(TRUE), BoolV(FALSE), ListV(<<>>)},
     id_field |->
        {Missing, IntV(5), Str(<<>>), Str(CHUNK_ID), Str(<<"m","y",".","i","d">>),
         Str(<<"1","b","a","d">>), Str(KEY)}]

\* The inputs of a run: every well-formed input within the bounds, in inline
\* and in dataset mode, and the smallest one with one field replaced.
RunCandidates ==
    [provider |->
        {Missing, IntV(5), Str(<<" ","Q","d","r","a","n","t"," ">>),
         Str(<<"w","e","a","v","i","a","t","e">>)},
     api_key |-> {Missing, Str(<<" ">>), Str(SHORT_KEY)},
     index_name |->
        {Missing, Str(<<"a"," ","b">>), Str(KEY), Str(<<"!">> \o KEY),
         Str(<<"!">> \o KeyPrefix(KEY)), Str(Repeat("a", PATTERN_TAIL + 2))},
     environment |-> EnvironmentCandidates,
     namespace |-> {Str(<<"p","r","o","d",".","n","s">>), Str(KEY \o <<"!">>)},
     distance_metric |-> {Str(<<"D","o","t">>), Str(<<"c","o","s","i","n","e">>)},
     dataset_id |->
        {Str(<<"d","s","~","1">>), Str(<<"b","a","d"," ","i","d">>), Str(KEY)},
     vectors |->
        {Missing, ListV(<<>>), ListV(<<IntV(1)>>),
         ListV(<<DictV(<<KV(EMBEDDING, ListV(<<>>))>>)>>)},
     batch_size |->
        {Missing, IntV(0), IntV(MAX_BATCH_SIZE_PINECONE + 1), Str(<<"x">>),
         Str(KEY), InfV},
     id_field |-> {Str(<<"m","y",".","i","d">>), Str(<<"1","b","a","d">>)}]

Providers == {PINECONE, QDRANT}
WellFormedInputs ==
    {BaseInput(p, n, b) : p \in Providers, n \in 1..MaxItems, b \in 1..MaxBatch}
DatasetInputs ==
    {[BaseInput(p, 1, b) EXCEPT !.vectors = Missing,
                                !.dataset_id = Str(<<"d","s","~","1">>)] :
        p \in Providers, b \in {MaxBatch}}
RunInputs ==
    WellFormedInputs \cup DatasetInputs
    \cup UNION {{[BaseInput(p, 1, 1) EXCEPT ![f] = v] : v \in RunCandidates[f]} :
                 p \in Providers, f \in Fields}

\* The inputs validate_input is tried on: a well-formed input with the i-th
\* and the j-th field replaced by v and w, any of their candidates.
PairInput(p, i, j, v, w) ==
    [BaseInput(p, 1, 1) EXCEPT ![FieldSeq[i]] = v, ![FieldSeq[j]] = w]

\* ------------------------------------------------------------ the machine
InitRest ==
    /\ pc = "start"
    /\ validated = Null
    /\ error = Null
    /\ fail_message = Null
    /\ dataset_opened = FALSE
    /\ items = <<>>
    /\ records = <<>>
    /\ host = Null
    /\ batch_start = 0
    /\ total_upserted = 0
    /\ total_batches = 0
    /\ collection_created = FALSE
    /\ result = Null
    /\ summary = <<>>
    /\ billing = Null
    /\ call = IdleCall
    /\ resp = Null
    /\ exc = NoExc
    /\ requested = {}
    /\ requests_sent = 0
    /\ batches = <<>>
    /\ acks = <<>>
    /\ calls_made = 0
    /\ call_sent = 0
    /\ call_status = 0
    /\ sleeps = <<>>

Init == actor_input \in RunInputs /\ InitRest

Next ==
    \/ Validate
    \/ LoadItems
    \/ PineconeStart
    \/ PineconeResolved
    \/ PineconeUpserted
    \/ QdrantStart
    \/ QdrantExistsDone
    \/ QdrantCreated
    \/ QdrantUpserted
    \/ ClientSend
    \/ ClientReceive
    \/ WriterRaised
    \/ Summarize

Spec == Init /\ [][Next]_vars

\* validate_input alone, on the wider set of inputs.
InitValidate ==
    /\ \E p \in Providers, i \in 1..Len(FieldSeq), j \in 1..Len(FieldSeq) :
         \E v \in Candidates[FieldSeq[i]], w \in Candidates[FieldSeq[j]] :
            actor_input = PairInput(p, i, j, v, w)
    /\ InitRest
SpecValidate == InitValidate /\ [][Validate]_vars

\* ============================================================ properties
\* ceil(n / b)
CeilDiv(n, b) == (n + b - 1) \div b
MinOf(a, b) == IF a < b THEN a ELSE b
RECURSIVE SumLen(_)
SumLen(seqs) == IF seqs = <<>> THEN 0 ELSE Len(Head(seqs)) + SumLen(Tail(seqs))

C2_NonRetryable ==
    (call.state # "idle" /\ call_status \in {400, 401, 403})
    => /\ call.state = "raised"
       /\ exc.type = "ValueError"
       /\ call_sent = call.attempt + 1
       /\ Len(sleeps) = call.attempt
       /\ call_status = 401
          => exc.msg = <<call.who, " API key is invalid or expired. Check your key and try again.">>

\* The first response of a call was a 401.
C2_Witness ==
    /\ call.state = "raised"
    /\ call_status = 401
    /\ call_sent = 1
    /\ sleeps = <<>>

\* C3: with N items and batch size B, the i-th upsert call of a writer
\* carries the records of items (i-1)*B+1 .. min(i*B, N), in order; and when
\* the writer has returned, it made exactly ceil(N/B) upsert calls, whose
\* lengths sum to N.
C3_Batching ==
    (batches # <<>> \/ result # Null)
    => LET N == Len(items)
           B == validated.batch_size
       IN  /\ N >= 1 /\ B >= 1
           /\ Len(records) = N
           /\ \A k \in 1..N : records[k].values = DictGet(items[k], EMBEDDING, Null)
           /\ Len(batches) \in 1..CeilDiv(N, B)
           /\ \A i \in 1..Len(batches) :
                 batches[i] = [k \in 1..(MinOf(i * B, N) - (i - 1) * B)
                                 |-> records[(i - 1) * B + k]]
           /\ result # Null
              => /\ Len(batches) = CeilDiv(N, B)
                 /\ SumLen(batches) = N

\* A writer returned after a full batch and a shorter last one.
C3_Witness ==
    /\ result # Null
    /\ Len(items) = 3
    /\ validated.batch_size = 2
    /\ Len(batches) = 2
    /\ Len(batches[2]) = 1

\* C4: in a run that pushed its summary, the summary's total_batches is the
\* number of upsert calls of the run, which is ceil(N/B).
C4_TotalBatches ==
    pc = "done"
    => /\ summary[1].total_batches = Len(batches)
       /\ Len(batches) = CeilDiv(Len(items), validated.batch_size)

\* What the input supplies: a string dataset_id that is not blank, a vectors
\* list that is not empty.
SuppliesDataset ==
    actor_input.dataset_id.t = "str" /\ Strip(actor_input.dataset_id.s) # <<>>
SuppliesVectors ==
    actor_input.vectors.t = "list" /\ Len(actor_input.vectors.l) > 0

\* validate_input has returned (it did not raise).
ValidationReturned == pc \notin {"start", "crashed"}

C6_ExactlyOneSource ==
    validated # Null
    => /\ (validated.dataset_id = Null) # (validated.vectors = Null)
       /\ validated.dataset_id # Null
          => (validated.dataset_id.t = "str" /\ validated.dataset_id.s # <<>>)
       /\ validated.vectors # Null
          => (validated.vectors.t = "list" /\ validated.vectors.l # <<>>)

\* An input with a blank dataset_id and a vectors list passed validation.
C6_Witness ==
    /\ validated # Null
    /\ actor_input.dataset_id.t = "str"
    /\ ~SuppliesDataset
    /\ validated.dataset_id = Null
    /\ validated.vectors = actor_input.vectors

\* The message holds the key, or the first 8 characters of it.
Leaks(msg, key) ==
    /\ key # <<>>
    /\ \/ Contains(msg, key)
       \/ Contains(msg, SubSeq(key, 1, MinOf(8, Len(key))))

\* The API key of the run: the input's, stripped.
InputKey ==
    IF actor_input.api_key.t = "str" THEN Strip(actor_input.api_key.s) ELSE <<>>

\* C7: the ValueError a call of _request_with_retry raises holds neither the
\* API key nor its first 8 characters.
C7_ClientErrorsRedacted ==
    (call.state = "raised" /\ exc.type = "ValueError")
    => ~Leaks(exc.msg, validated.api_key)

\* C8: the message of a run that failed before any call of the HTTP client
\* (validate_input's error, or the ValueError of loading the items) holds
\* neither the API key nor its first 8 characters.
C8_OtherFailuresRedacted ==
    (pc = "failed" /\ calls_made = 0)
    => ~Leaks(fail_message.s, InputKey)

\* C9: the environment of a validated Qdrant input is exactly
\* https://<host chars>.cloud.qdrant.io with an optional :port, and every
\* request of the run goes to that environment's /collections/{name}... path.
C9_OnlyQdrantCloud ==
    (validated # Null /\ validated.provider = QDRANT)
    => /\ validated.environment.t = "str"
       /\ QdrantUrlBody(validated.environment.s)
       /\ \A r \in requested :
            StartsWithAt(r.url, 1,
                         validated.environment.s \o <<"/collections/">>
                           \o validated.index_name)

\* C10: when validate_input returned an error the run has failed with that
\* error, with no request sent, no client call made and no dataset opened;
\* and any request, call or opened dataset follows a successful validation.
C10_ErrorStopsRun ==
    /\ Truthy(error)
       => /\ pc = "failed"
          /\ fail_message = error
          /\ validated = Null
          /\ requested = {}
          /\ calls_made = 0
          /\ ~dataset_opened
    /\ (requested # {} \/ calls_made > 0 \/ dataset_opened)
       => (validated # Null /\ error = Null)

\* A run failed on validate_input's error.
C10_Witness ==
    /\ pc = "failed"
    /\ Truthy(error)
    /\ fail_message = error
    /\ requested = {}

\* C11: validate_input never raises: once it has run it has returned either
\* a ValidatedInput and no error, or no result and one non-empty error string.
C11_NeverRaises ==
    pc # "start"
    => /\ pc # "crashed"
       /\ \/ validated # Null /\ error = Null
          \/ validated = Null /\ error.t = "str" /\ error.s # <<>>

\* The vectors of the returned upsert calls whose status was "ok".
RECURSIVE OkSum(_, _)
OkSum(statuses, sent) ==
    IF statuses = <<>> THEN 0
    ELSE LET n == Len(statuses)
         IN  OkSum(SubSeq(statuses, 1, n - 1), sent)
             + (IF statuses[n] = Str(<<"o","k">>) THEN Len(sent[n]) ELSE 0)

QdrantRun == validated # Null /\ validated.provider = QDRANT

\* C12: in a Qdrant run an accepted upsert response whose status is not "ok"
\* adds nothing to total_upserted and does not end the run: the batch after it
\* is sent, and the total is the vectors of exactly the batches answered "ok",
\* in the writer's result and in the summary.
C12_NotOkBatchSkipped ==
    QdrantRun
    => /\ Len(acks) <= Len(batches)
       /\ total_upserted = OkSum(acks, batches)
       /\ \A i \in 1..Len(acks) :
             IF i * validated.batch_size < Len(records)
             THEN Len(batches) > i
             ELSE result # Null /\ Len(batches) = i
       /\ result # Null => result.total_upserted = OkSum(acks, batches)
       /\ summary # <<>> => summary[1].total_vectors_upserted = OkSum(acks, batches)

\* A two-batch run whose first batch was answered with another status and
\* whose second was answered "ok": the summary counts the second alone.
C12_Witness ==
    /\ QdrantRun
    /\ pc = "done"
    /\ Len(acks) = 2
    /\ acks[1] # Str(<<"o","k">>)
    /\ acks[2] = Str(<<"o","k">>)
    /\ summary[1].total_vectors_upserted = Len(batches[2])
    /\ Len(batches[1]) > 0

\* C13: a writer result of 0 vectors fails the run with no summary and no
\* billing computed; billing is computed only for a result above 0, and its
\* total_vectors is the summary's total_vectors_upserted.
C13_ZeroIsFailure ==
    /\ (result # Null /\ result.total_upserted = 0 /\ pc # "summarize")
       => /\ pc = "failed"
          /\ fail_message # Null
          /\ summary = <<>>
          /\ billing = Null
    /\ billing # Null
       => /\ result # Null
          /\ result.total_upserted > 0
          /\ Len(summary) = 1
          /\ summary[1].billing = billing
          /\ billing.total_vectors = summary[1].total_vectors_upserted
          /\ billing.total_vectors = result.total_upserted
    /\ summary # <<>> => billing # Null

\* A run failed on a writer result of 0 vectors, every call answered 200.
C13_Witness ==
    /\ pc = "failed"
    /\ result # Null
    /\ result.total_upserted = 0
    /\ result.total_batches > 0
    /\ call_status = 200

\* C14: a request that runs into the 60-unit timeout is handled as a network
\* error: a call whose last attempt timed out ends only after exactly 3
\* attempts, with the retry-exhausted ValueError, and main reports that error.
C14_TimeoutRetried ==
    /\ (call.state = "raised" /\ call_status = TimedOut)
       => /\ call_sent = 3
          /\ exc.type = "ValueError"
    /\ (pc = "failed" /\ call_status = TimedOut /\ result = Null /\ exc # NoExc)
       => exc.type = "ValueError"

\* ------------------------------------------------- the builders on their own
\* The values an item may hold at its chunk_id: none, strings (an empty one, a
\* blank one), and values of other types.
IdValues ==
    {Missing, Str(<<>>), Str(<<"a","1">>), Str(<<" ">>), IntV(7), Null, BoolV(TRUE)}
TEXT == <<"t","e","x","t">>
IdFields == {CHUNK_ID, TEXT, <<"u","i","d">>}
ItemWithId(v) ==
    DictV((IF v = Missing THEN <<>> ELSE <<KV(CHUNK_ID, v)>>)
          \o <<KV(EMBEDDING, ListV(<<FloatV(1)>>)), KV(TEXT, Str(<<"h","i">>))>>)

\* Inline vectors of up to MaxItems items, with an id_field.
InitBuild ==
    /\ \E p \in Providers, f \in IdFields, n \in 1..MaxItems :
         \E ids \in [1..n -> IdValues] :
            actor_input = [BaseInput(p, 1, 1) EXCEPT
                              !.id_field = Str(f),
                              !.vectors = ListV([i \in 1..n |-> ItemWithId(ids[i])])]
    /\ InitRest

\* The loop that builds the records of either writer, taken alone.
BuildRecords ==
    /\ pc = "route"
    /\ records' = BuildAll(items, validated.id_field,
                           IF validated.provider = PINECONE THEN "Pinecone" ELSE "Qdrant")
    /\ pc' = "built"
    /\ UNCHANGED <<actor_input, validated, error, fail_message, dataset_opened, items,
                   result, summary, billing, host, batch_start, total_upserted,
                   total_batches, collection_created, batches, acks, clientVars>>

SpecBuild == InitBuild /\ [][Validate \/ LoadItems \/ BuildRecords]_vars

\* The value item i holds at the id field, Missing when it holds none.
IdValueOf(i) == DictGet(items[i], validated.id_field, Missing)
GivenId(i) == IdValueOf(i).t = "str" /\ IdValueOf(i).s # <<>>

\* C15: each record's id is the item's value at id_field when that is a
\* non-empty string, and otherwise (missing, empty, not a string) a generated
\* non-empty id, the generated ids of different items being pairwise distinct.
C15_RecordIds ==
    pc = "built"
    => /\ Len(records) = Len(items)
       /\ \A i \in 1..Len(records) :
             IF GivenId(i) THEN records[i].id = IdValueOf(i).s
             ELSE /\ records[i].id # <<>>
                  /\ \A j \in 1..Len(records) :
                        (j # i /\ ~GivenId(j)) => records[j].id # records[i].id

\* Three records built: a given id kept, and two generated, one for an empty
\* string and one for a value that is no string.
C15_Witness ==
    /\ pc = "built"
    /\ Len(records) = 3
    /\ GivenId(1) /\ records[1].id = <<"a","1">>
    /\ IdValueOf(2) = Str(<<>>)
    /\ IdValueOf(3) = IntV(7)
    /\ records[2].id # records[3].id

\* The spec's rule (1..10) whose error validate_input returned, 0 when it
\* returned none; told from the text the message begins with.
RuleOfError ==
    IF ~Truthy(error) THEN 0
    ELSE LET m == error.s[1]
         IN  CASE m = "Invalid provider '" -> 1
               [] m = "API key is required. Provide your Pinecone or Qdrant API key." -> 2
               [] m \in {"Index/collection name is required. Pinecone: your index name. Qdrant: your collection name.",
                         "Invalid index/collection name: '"} -> 3
               [] m \in {"Qdrant cluster URL is required. Provide your Qdrant Cloud URL (e.g., 'https://xyz.us-east-1.aws.cloud.qdrant.io:6333').",
                         "Invalid Qdrant cluster URL: '"} -> 4
               [] m = "Invalid namespace: '" -> 5
               [] m = "Invalid distance metric '" -> 6
               [] m \in {"No input provided. Supply either 'dataset_id' (from RAG Embedding Generator output) or 'vectors' (raw vector array).",
                         "Invalid dataset_id format: '"} -> 7
               [] m \in {"Too many vectors: ", "vectors["} -> 8
               [] m \in {"batch_size must be an integer, got '",
                         "batch_size must be between 1 and "} -> 9
               [] m = "Invalid id_field: '" -> 10
               [] OTHER -> 11

\* The input passes rule 1 and rule 2, so that rule 3 is reached.
InputProvider ==
    IF actor_input.provider.t = "str" THEN ToLower(Strip(actor_input.provider.s))
    ELSE <<"p","i","n","e","c","o","n","e">>
ProviderPasses ==
    InputProvider \in {<<"p","i","n","e","c","o","n","e">>, <<"q","d","r","a","n","t">>}
ApiKeyPasses == actor_input.api_key.t = "str" /\ Strip(actor_input.api_key.s) # <<>>
ReachesIndexName ==
    ValidationReturned /\ ProviderPasses /\ ApiKeyPasses /\ actor_input.index_name.t = "str"

\* s matches ^[A-Za-z0-9][A-Za-z0-9_-]{0,63}$ as a whole.
NameChars == AlnumChars \cup {"_", "-"}
NameMatches(s) ==
    /\ Len(s) \in 1..64
    /\ s[1] \in AlnumChars
    /\ \A i \in 1..Len(s) : s[i] \in NameChars

\* C16 as stated: rule 3 accepts every index_name that matches the pattern
\* and rejects every index_name string that holds a character outside
\* [A-Za-z0-9_-], leading and trailing whitespace included, or is longer than
\* 64 characters.
C16_IndexNameRule ==
    ReachesIndexName
    => LET s == actor_input.index_name.s
       IN  /\ NameMatches(s) => RuleOfError # 3
           /\ ((\E i \in 1..Len(s) : s[i] \notin NameChars) \/ Len(s) > 64)
              => RuleOfError = 3

\* C16 amended: rule 3 decides on the index_name with the whitespace around
\* it removed: it accepts exactly the strings whose trimmed form matches the
\* pattern, and the trimmed form is the name a successful validation returns.
C16_TrimmedIndexName ==
    ReachesIndexName
    => LET s == Strip(actor_input.index_name.s)
       IN  /\ NameMatches(s) <=> RuleOfError # 3
           /\ ((\E i \in 1..Len(s) : s[i] \notin NameChars) \/ Len(s) > 64)
              => RuleOfError = 3
           /\ validated # Null => validated.index_name = s

\* An index_name with a blank before and after it passed validation.
C16_Witness ==
    /\ ReachesIndexName
    /\ validated # Null
    /\ Len(actor_input.index_name.s) > 2
    /\ actor_input.index_name.s[1] = " "
    /\ validated.index_name = <<"i","d","x">>

\* The phases in their order: validating (and loading the items), resolving
\* or ensuring the target, upserting, summarizing, and the ends of a run.
PhaseRank ==
    CASE pc \in {"start", "load", "route"} -> 1
      [] pc \in {"p_resolve", "q_exists"} -> 2
      [] pc = "q_create" -> 3
      [] pc \in {"p_upsert", "q_upsert"} -> 4
      [] pc = "summarize" -> 5
      [] OTHER -> 6

PineconeRun == validated # Null /\ validated.provider = PINECONE
LastOf(url) == url[Len(url)]
ResolveRequested == \E r \in requested : r.url[1] = "https://api.pinecone.io"
ExistsRequested == \E r \in requested : LastOf(r.url) = "/exists"
UpsertRequested == \E r \in requested : LastOf(r.url) \in {"/vectors/upsert", "/points"}
CreateRequested ==
    \E r \in requested : r.method = "PUT" /\ LastOf(r.url) # "/points"
AllBuilt == records # <<>> /\ Len(records) = Len(items)

\* What holds in both providers: nothing before validation, no upsert request
\* before every record is built and the target is resolved or ensured, no
\* return of the writer before every batch was sent, no summary before that.
CommonOrder ==
    /\ validated = Null => requested = {} /\ records = <<>>
    /\ (UpsertRequested \/ batches # <<>>)
       => /\ AllBuilt
          /\ PineconeRun => ResolveRequested /\ host # Null
          /\ QdrantRun => ExistsRequested
    /\ CreateRequested => ExistsRequested
    /\ result # Null
       => /\ UpsertRequested
          /\ SumLen(batches) = Len(records)
          /\ PhaseRank >= 5
    /\ summary # <<>> => result # Null /\ pc = "done"

\* No record is built before the target is resolved (Pinecone: the host is
\* known) or ensured (Qdrant: _ensure_collection returned, so that the first
\* upsert call has begun).
TargetBeforeBuilding ==
    records # <<>>
    => /\ PineconeRun => ResolveRequested /\ host # Null
       /\ QdrantRun => ExistsRequested /\ batches # <<>>

\* C17 as stated: the phases of a run of either provider come in the order
\* validating, resolving or ensuring the target, building, upserting batch
\* 1..N, summarizing, none revisited or skipped: no record is built before
\* the target is resolved or ensured, no upsert request sent before all
\* records are built.
C17_PhaseOrder ==
    [][/\ PhaseRank' >= PhaseRank
       /\ CommonOrder'
       /\ TargetBeforeBuilding']_vars

\* In a Qdrant run the records are built before any request is sent.
BuildingBeforeEnsuring ==
    (QdrantRun /\ requested # {}) => AllBuilt

\* C17 amended: Pinecone resolves its target and then builds; Qdrant builds
\* and then ensures its target; in both no phase is revisited or skipped and
\* no upsert request is sent before all records are built and the target is
\* resolved or ensured.
C17_ProviderPhaseOrder ==
    [][/\ PhaseRank' >= PhaseRank
       /\ CommonOrder'
       /\ (PineconeRun => TargetBeforeBuilding)'
       /\ BuildingBeforeEnsuring']_vars

\* A Qdrant run that created its collection and pushed its summary after two
\* batches.
C17_Witness ==
    /\ QdrantRun
    /\ pc = "done"
    /\ collection_created
    /\ CreateRequested
    /\ Len(batches) = 2
    /\ summary # <<>>

\* The run is over: main has returned or an exception has left it.
RunOver == pc \in {"done", "failed", "crashed"}

\* Only requests that read or write: none that deletes what a batch wrote.
NoCompensation == \A r \in requested : r.method \in {"GET", "POST", "PUT"}

\* C18: a run ends in exactly one of two states, Summarized (one summary
\* pushed, after the last batch) or Failed (a failure message and no summary);
\* after the call for a batch failed no later batch is sent and nothing is
\* deleted.
C18_TwoTerminalStates ==
    /\ RunOver
       => \/ /\ pc = "done"
             /\ Len(summary) = 1
             /\ fail_message = Null
             /\ result # Null
             /\ SumLen(batches) = Len(records)
          \/ /\ pc = "failed"
             /\ Truthy(fail_message)
             /\ summary = <<>>
    /\ (pc = "failed" /\ batches # <<>> /\ result = Null)
       => /\ call_status # 200
          /\ Len(batches) * validated.batch_size >= batch_start + validated.batch_size
          /\ batch_start = (Len(batches) - 1) * validated.batch_size
    /\ NoCompensation

\* The records of the batches begun so far, in the order they were begun.
RECURSIVE Flatten(_)
Flatten(seqs) == IF seqs = <<>> THEN <<>> ELSE Head(seqs) \o Flatten(Tail(seqs))

\* C19: one request at a time. The request in flight is the only one of its
\* call not yet answered (every earlier attempt has come back and its sleep
\* is over); the call for the next batch begins only at a step where the
\* call for the batch before it has returned; and the batches begun are the
\* records in input order, none passed over.
C19_OneRequestAtATime ==
    [][/\ call'.state = "inflight" => call_sent' = call'.attempt + 1
       /\ call'.state = "ready" => call_sent' = call'.attempt
       /\ call_sent' > call_sent => call.state = "ready" /\ call'.state = "inflight"
       /\ Len(batches') <= Len(batches) + 1
       /\ (Len(batches') > Len(batches) /\ batches # <<>>)
          => /\ call.state = "returned"
             /\ call.kind = "upsert"
             /\ call.payload = batches[Len(batches)]
             /\ call'.state = "ready"
       /\ Flatten(batches') = SubSeq(records', 1, Len(Flatten(batches')))]_vars

\* The request of the second batch is in flight for the second time, after a
\* sleep.
C19_Witness ==
    /\ Len(batches) = 2
    /\ call.state = "inflight"
    /\ call.kind = "upsert"
    /\ call.attempt = 1
    /\ sleeps # <<>>
    /\ call.payload = batches[2]

\* What each rule asks of the input, rule by rule and without regard to the
\* others: Breaks(k) says the input breaks rule k.
InputBatchLimit == IF InputProvider = <<"q","d","r","a","n","t">> THEN 500 ELSE 1000
InputBatchInRange(n) == n >= 1 /\ n <= InputBatchLimit
Breaks(k) ==
    LET a == actor_input
    IN  CASE k = 1 -> ~ProviderPasses
          [] k = 2 -> ~ApiKeyPasses
          [] k = 3 -> ~(a.index_name.t = "str" /\ NameMatches(Strip(a.index_name.s)))
          [] k = 4 ->
               /\ InputProvider = <<"q","d","r","a","n","t">>
               /\ ~(/\ a.environment.t = "str"
                    /\ a.environment.s # <<>>
                    /\ _QDRANT_URL_PATTERN(RStripChar(Strip(a.environment.s), "/")))
          [] k = 5 ->
               /\ a.namespace.t = "str"
               /\ Strip(a.namespace.s) # <<>>
               /\ ~_NAMESPACE_PATTERN(Strip(a.namespace.s))
          [] k = 6 ->
               /\ a.distance_metric.t = "str"
               /\ a.distance_metric.s \notin
                      {<<"C","o","s","i","n","e">>, <<"D","o","t">>, <<"E","u","c","l","i","d">>}
          [] k = 7 ->
               \/ ~SuppliesDataset /\ ~SuppliesVectors
               \/ SuppliesDataset /\ ~_DATASET_ID_PATTERN(Strip(a.dataset_id.s))
          [] k = 8 ->
               /\ SuppliesVectors
               /\ ~SuppliesDataset
               /\ \/ Len(a.vectors.l) > 50000
                  \/ \E i \in 1..Len(a.vectors.l) : VectorFault(a.vectors.l[i]) # "none"
          [] k = 9 ->
               /\ a.batch_size # Missing
               /\ IF a.batch_size.t \in {"int", "bool"}
                  THEN ~InputBatchInRange(a.batch_size.n)
                  ELSE PyInt(a.batch_size).k # "ok"
                       \/ ~InputBatchInRange(PyInt(a.batch_size).n)
          [] OTHER ->
               /\ a.id_field.t = "str"
               /\ Strip(a.id_field.s) # <<>>
               /\ ~_FIELD_NAME_PATTERN(Strip(a.id_field.s))
BrokenRules == {k \in 1..10 : Breaks(k)}

\* C20: validate_input is fail-fast in the rule order: for an input that
\* breaks several rules the error it returns is that of the lowest-numbered
\* rule broken.
C20_FailFastOrder ==
    (pc # "start" /\ Cardinality(BrokenRules) >= 2)
    => RuleOfError = SetMin(BrokenRules)

\* The lookup of a Pinecone run, and the requests other than it.
LookupRequest ==
    [method |-> "GET",
     url |-> <<"https://api.pinecone.io", "/indexes/">> \o validated.index_name]
OtherRequests == requested \ {LookupRequest}

\* The lookup was answered and its answer held no usable host.
LookupGaveNoHost ==
    /\ PineconeRun
    /\ pc # "p_resolve"
    /\ host = Null
    /\ resp # Null

\* C21: in a Pinecone run the first request is the GET of the index at the
\* hardcoded control plane; every other request is a POST to
\* https://{host}/vectors/upsert for the host the lookup returned; and a
\* lookup answer without a non-empty host fails the run with the
\* could-not-resolve error, no upsert request sent.
C21_PineconeHost ==
    PineconeRun
    => /\ requested # {} => LookupRequest \in requested
       /\ OtherRequests # {}
          => /\ host # Null
             /\ Truthy(host)
             /\ \A r \in OtherRequests :
                   /\ r.method = "POST"
                   /\ r.url = <<"https://">> \o PyStr(host) \o <<"/vectors/upsert">>
       /\ LookupGaveNoHost
          => /\ ~Truthy(DictGet(resp, <<"h","o","s","t">>, Null))
             /\ pc = "failed"
             /\ fail_message.s[1] = "Could not resolve host for Pinecone index '"
             /\ OtherRequests = {}
             /\ batches = <<>>
       /\ (resp # Null /\ host = Null /\ pc = "p_resolve") => call.state = "returned"

\* A lookup answered with an empty host: the run has failed, the lookup the
\* only request sent.
C21_Witness ==
    /\ LookupGaveNoHost
    /\ resp = DictV(<<KV(<<"h","o","s","t">>, Str(<<>>))>>)
    /\ requested = {LookupRequest}
    /\ pc = "failed"

\* Two upsert requests went to the host the lookup returned.
C21_UpsertsReachHost ==
    /\ PineconeRun
    /\ pc = "done"
    /\ Len(batches) = 2
    /\ Cardinality(OtherRequests) = 1

\* The existence check said the collection exists.
SaidExists ==
    /\ call.state = "returned"
    /\ Truthy(DictGet(DictGet(resp, <<"r","e","s","u","l","t">>, DictV(<<>>)),
                      <<"e","x","i","s","t","s">>, BoolV(FALSE)))

\* The call that follows is the create call: PUT {cluster}/collections/{name}
\* with the length of the first vector and the configured distance.
CreateCallBegins ==
    /\ pc' = "q_create"
    /\ call'.state = "ready"
    /\ call'.method = "PUT"
    /\ call'.url = validated.environment.s \o <<"/collections/">> \o validated.index_name
    /\ call'.payload = <<[size |-> Len(records[1].values.l),
                          distance |-> validated.distance_metric]>>
    /\ ~UpsertRequested

\* C22: in a Qdrant run the existence check precedes every upsert; when it
\* says the collection exists no create request is sent and
\* collection_created is false; when it says otherwise, or fails with an
\* error of any kind, the create call is made before the first upsert;
\* collection_created is true in the summary exactly if the create call
\* succeeded; a failed create call fails the run with no upsert sent.
C22_EnsureCollection ==
    [][QdrantRun
       => /\ UpsertRequested' => ExistsRequested'
          /\ (pc = "q_exists" /\ call.state \in {"returned", "raised"})
             => IF SaidExists
                THEN /\ pc' = "q_upsert"
                     /\ collection_created' = FALSE
                     /\ ~CreateRequested'
                ELSE CreateCallBegins
          /\ (pc = "q_create" /\ call.state = "raised")
             => /\ pc' = "failed"
                /\ ~UpsertRequested'
                /\ batches' = <<>>
                /\ summary' = <<>>
          /\ (pc = "q_create" /\ call.state = "returned")
             => /\ pc' = "q_upsert"
                /\ collection_created' = TRUE
          /\ summary' # <<>>
             => (summary'[1].collection_created <=> CreateRequested')]_vars

\* A step in which the client sleeps, and one in which attempt k's request
\* leaves.
ClientSleeps == sleeps' # sleeps /\ sleeps' # <<>>
AttemptLeaves == call.state = "ready" /\ call'.state = "inflight"

\* C23: within a client call the delay before attempt k (k in 0..2, none
\* being needed before attempt 0) is exactly _BASE_DELAY * 2^k, and the client
\* sleeps at no other time: every sleep is followed by a further attempt, and
\* the retry-exhausted error is raised without a sleep after the last attempt.
C23_DelayBeforeAttempt ==
    [][/\ (AttemptLeaves /\ call.attempt >= 1)
          => /\ Len(sleeps) >= 1
             /\ sleeps[Len(sleeps)] = _BASE_DELAY * Pow2(call.attempt)
       /\ ClientSleeps => call'.state = "ready"]_vars

\* ------------------------------------------------ _sanitize_error on its own
\* Keys validate_input accepts (any non-empty string): ones made of
\* characters of the marker "[REDACTED]", a long and a short ordinary one.
SanitizeKeys ==
    {<<"R","E","D">>, <<"x","[">>, <<"x">>, <<"R","E","D","A","C","T","E","D">>,
     KEY, SHORT_KEY}
MaxBody == 3
BodyChars == {"R", "E", "D", "x", "["}

\* The response bodies: every text of up to MaxBody characters, and texts
\* that hold the key or its first characters.
Bodies(api_key) ==
    UNION {[1..n -> BodyChars] : n \in 0..MaxBody}
    \cup {api_key, api_key \o api_key, <<"k","e","y","="," ">> \o api_key,
          KeyPrefix(api_key) \o <<".",".",".">>}

InitSanitize ==
    /\ \E k \in SanitizeKeys :
          actor_input = [BaseInput(PINECONE, 1, 1) EXCEPT !.api_key = Str(k)]
    /\ InitRest

\* safe_body = _sanitize_error(body, api_key), and the error raised with it.
SanitizeBody ==
    /\ pc = "load"
    /\ \E body \in Bodies(validated.api_key) :
          exc' = ValueError(_sanitize_error(body, validated.api_key))
    /\ pc' = "sanitized"
    /\ UNCHANGED <<actor_input, validated, error, fail_message, dataset_opened, items,
                   result, summary, billing, writerVars, call, resp, requested, requests_sent,
                   calls_made, call_sent, call_status, sleeps>>

SpecSanitize == InitSanitize /\ [][Validate \/ SanitizeBody]_vars

\* C24: for every non-empty key and every message, _sanitize_error(message,
\* key) holds no substring equal to the key and none equal to the key's first
\* 8 characters, and applying _sanitize_error to it again leaves it unchanged.
C24_SanitizeRemovesKey ==
    pc = "sanitized"
    => /\ ~Contains(exc.msg, validated.api_key)
       /\ ~Contains(exc.msg, KeyPrefix(validated.api_key))
       /\ _sanitize_error(exc.msg, validated.api_key) = exc.msg

\* The value types the claim has each provider permit.
Permitted(value) ==
    IF PineconeRun
    THEN \/ value.t \in {"str", "int", "float", "inf", "nan", "bool"}
         \/ value.t = "list" /\ \A j \in 1..Len(value.l) : value.l[j].t = "str"
    ELSE value.t \in {"str", "int", "float", "inf", "nan", "bool", "list", "dict", "null"}

\* C25: the metadata (Pinecone) or payload (Qdrant) of a built record holds
\* exactly the item's keys that are outside the reserved set {embedding,
\* _summary, index, dimensions}, differ from id_field and have a value of a
\* type the provider permits, each with its value unchanged; Pinecone permits
\* strings, integers, floats, booleans and all-string lists, Qdrant every
\* JSON value (string, number, boolean, list, object and null).
C25_MetadataKeys ==
    \A i \in 1..Len(records) :
       records[i].metadata =
          SelectSeq(items[i].l,
                    LAMBDA kv : /\ kv.k \notin SKIP_FIELDS
                                /\ kv.k # validated.id_field
                                /\ Permitted(kv.v))

\* The text holds a control character.
HasControlChar(text) == \E i \in 1..Len(text) : text[i] \in _CONTROL_CHARS

\* C26: every string input has its control characters removed before it is
\* placed in an error message or handed on: no error message of
\* validate_input and no field of a ValidatedInput it returns holds a control
\* character.
C26_NoControlChars ==
    pc # "start"
    => /\ ~HasControlChar(error.s)
       /\ validated # Null
          => /\ ~HasControlChar(validated.api_key)
             /\ ~HasControlChar(validated.index_name)
             /\ ~HasControlChar(validated.environment.s)
             /\ ~HasControlChar(validated.namespace)
             /\ ~HasControlChar(validated.dataset_id.s)
             /\ ~HasControlChar(validated.id_field)

\* validate_input and the loading of the items, on the wider set of inputs.
SpecLoad == InitValidate /\ [][Validate \/ LoadItems]_vars

\* The rows a dataset may hold.
DatasetRows == UNION {Range(content.rows) : content \in DatasetContents}

\* C27: when the input supplies both a non-empty dataset_id and a non-empty
\* vectors list the run is in dataset mode: the inline vectors are never
\* checked by the inline-vector rule, a ValidatedInput has dataset_id set and
\* vectors None, and the items written come from the dataset only.
C27_DatasetModeWins ==
    (SuppliesDataset /\ SuppliesVectors /\ ValidationReturned)
    => /\ RuleOfError # 8
       /\ validated # Null
          => /\ validated.dataset_id = Str(Strip(actor_input.dataset_id.s))
             /\ validated.vectors = Null
             /\ pc # "load"
                => /\ dataset_opened
                   /\ \A i \in 1..Len(items) : items[i] \in DatasetRows
                   /\ pc = "route" => items # <<>>

\* Both sources supplied, the inline vectors being ones the inline-vector
\* rule would refuse, and the items loaded from the dataset.
C27_Witness ==
    /\ SuppliesDataset
    /\ SuppliesVectors
    /\ actor_input.vectors = ListV(<<IntV(1)>>)
    /\ pc = "route"
    /\ dataset_opened
    /\ Len(items) = 2

\* The statuses _request_with_retry names in none of its branches.
UnnamedStatuses ==
    ServerStatuses \ (ACCEPT_STATUSES \cup NON_RETRYABLE_STATUSES \cup RETRYABLE_STATUSES)

\* C28: once a request of a call has come back with a status that is neither
\* accepted, nor 400/401/403, nor 429/500/502/503/504 (404, say), the call has
\* raised the unexpected-response error on that attempt: no request and no
\* sleep after that response.
C28_UnexpectedStatusRaises ==
    (call.state # "idle" /\ call_status \in UnnamedStatuses)
    => /\ call.state = "raised"
       /\ exc.type = "ValueError"
       /\ exc.msg[1] = "Unexpected "
       /\ exc.msg[2] = call.who
       /\ call_sent = call.attempt + 1
       /\ Len(sleeps) = call.attempt

\* The first response of a call was a 404.
C28_Witness ==
    /\ call.state = "raised"
    /\ call_status = 404
    /\ exc.msg[1] = "Unexpected "
    /\ call_sent = 1
    /\ sleeps = <<>>

\* ------------------------------------------------- the run to its end
\* The run with every request counted. After validation the run is one
\* coroutine on the event loop, and each await comes back (a request within
\* _REQUEST_TIMEOUT, a sleep after its delay): a step that can be taken is
\* taken.
NextCounted ==
    \/ Validate
    \/ LoadItems
    \/ PineconeStart
    \/ PineconeResolved
    \/ PineconeUpserted
    \/ QdrantStart
    \/ QdrantExistsDone
    \/ QdrantCreated
    \/ QdrantUpserted
    \/ ClientSendCounted
    \/ ClientReceive
    \/ WriterRaised
    \/ Summarize

\* The runs followed to their end: inline vectors, one item and MaxItems of
\* them, in batches of MaxBatch, and the dataset inputs.
FairInputs ==
    {BaseInput(p, n, MaxBatch) : p \in Providers, n \in {1, MaxItems}} \cup DatasetInputs
InitFair == actor_input \in FairInputs /\ InitRest

\* The steps main takes once validate_input has returned.
AfterValidation == pc # "start" /\ NextCounted

SpecFair == InitFair /\ [][NextCounted]_vars /\ WF_vars(AfterValidation)

\* 3 * (1 + ceil(N/B)) for Pinecone, 3 * (2 + ceil(N/B)) for Qdrant.
RequestBound ==
    3 * ((IF PineconeRun THEN 1 ELSE 2) + CeilDiv(Len(items), validated.batch_size))

\* The run is over: summarized, or failed.
Terminated == pc \in {"done", "failed"}

\* C29: whatever the servers answer and whatever network errors occur, a run
\* whose input passed validation ends, summarized or failed, and with N items
\* and batch size B >= 1 it sends at most 3 * (1 + ceil(N/B)) requests to
\* Pinecone, at most 3 * (2 + ceil(N/B)) to Qdrant.
C29_TerminatesWithinBound ==
    /\ [](validated # Null
          => /\ validated.batch_size >= 1
             /\ requests_sent <= RequestBound)
    /\ (validated # Null) ~> Terminated

\* A Qdrant run that failed having sent as many requests as the bound allows:
\* three for each of the existence check, the create call and the one batch.
C29_Witness ==
    /\ QdrantRun
    /\ pc = "failed"
    /\ Len(items) = 1
    /\ requests_sent = 9

====
